---- MODULE Spec2Model ----
(***************************************************************************)
(* chidb: the B-tree file (src/src/libchidb/btree.c) and the traversal     *)
(* cursor (src/src/libchidb/dbm-cursor.c).                                  *)
(*                                                                         *)
(* A page of the file is modelled by the node it holds: the header fields  *)
(* chidb_Btree_writeNode serialises and the cells the cell-offset array    *)
(* designates, in array order.  Bytes of a page that no offset designates  *)
(* (what chidb_Btree_initEmptyNode leaves behind) are not modelled.        *)
(* The pager keeps no cache: every chidb_Btree_getNodeByPage yields a      *)
(* private copy of the page, so a node held in memory is a snapshot.       *)
(***************************************************************************)
EXTENDS Integers, Sequences, FiniteSets, TLC

(* ------------------------------ bounds --------------------------------- *)

\* Keys offered to insert / find / seek are 1..MaxKey.
MaxKey == 10

\* Insert calls a caller makes on top of the entries a tree is seeded with.
MaxInserts == 1

\* The pager's page size, scaled down so that nodes fill after a few cells:
\* a leaf holds 3 cells, a table internal node 3, an index internal node 2.
PageSize == 50

\* The page size chidb_Btree_open gives a new file.
DEFAULT_PAGE_SIZE == 1024

\* Recursion budget of one insert call; an insert that exhausts it is one
\* whose split-and-retry recursion does not return.
MaxFuel == 24

(* ----------------------------- constants ------------------------------- *)

DEFAULT_CURSOR_MAX_DEPTH == 5

PGTYPE_TABLE_INTERNAL == "TABLE_INTERNAL"
PGTYPE_TABLE_LEAF     == "TABLE_LEAF"
PGTYPE_INDEX_INTERNAL == "INDEX_INTERNAL"
PGTYPE_INDEX_LEAF     == "INDEX_LEAF"

CHIDB_OK         == "CHIDB_OK"
CHIDB_ECELLNO    == "CHIDB_ECELLNO"
CHIDB_EPAGENO    == "CHIDB_EPAGENO"
CHIDB_ECORRUPTHEADER == "CHIDB_ECORRUPTHEADER"
CHIDB_ENOTFOUND  == "CHIDB_ENOTFOUND"
CHIDB_EDUPLICATE == "CHIDB_EDUPLICATE"
CHIDB_EIO        == "CHIDB_EIO"
\* "int ret = -1" of chidb_Btree_insertNonFull
RET_UNSET        == "-1"
\* the call does not return (recursion budget exhausted)
NO_RETURN        == "NO_RETURN"

CHIDB_CURSOR_ENONEXT      == "CHIDB_CURSOR_ENONEXT"
CHIDB_CURSOR_EKEYNOTFOUND == "CHIDB_CURSOR_EKEYNOTFOUND"
CHIDB_CURSOR_ENOPREV      == "CHIDB_CURSOR_ENOPREV"
\* assert() failed: the process is aborted
ASSERT_FAILED             == "ASSERT_FAILED"
\* the process was ended by a fault after a read or a free of memory it
\* does not own
CRASHED                   == "CRASHED"

Keys == 1..MaxKey

\* Sizes of the data of a table entry offered to insert_in_table.
DataSizes == {4}

\* An entry's payload is distinct from its key and differs between two
\* inserts of the same key that choose different salts.
Salts == {0, 1}

U16(x) == x % 65536

(* --------------------------- page codec -------------------------------- *)

IsInternal(type) == type \in {PGTYPE_TABLE_INTERNAL, PGTYPE_INDEX_INTERNAL}

IsLeaf(type) == type \in {PGTYPE_TABLE_LEAF, PGTYPE_INDEX_LEAF}

IsIndex(type) == type \in {PGTYPE_INDEX_LEAF, PGTYPE_INDEX_INTERNAL}

HeaderSize(type) == IF IsInternal(type) THEN 12 ELSE 8

NodeOrigin(npage) == IF npage = 1 THEN 100 ELSE 0

\* sizeof(chidb_key_t) bytes of v as the host stores them ("*key_data = v"),
\* least significant byte first.
HostBytes(v) ==
    << v % 256, (v \div 256) % 256, (v \div 65536) % 256, (v \div 16777216) % 256 >>

\* The value a caller reads back from such a buffer through a chidb_key_t*.
HostValue(b) == b[1] + 256 * b[2] + 65536 * b[3] + 16777216 * b[4]

\* put2byte / put4byte: most significant byte first; get4byte reads it back.
Put2Byte(v) == << (v \div 256) % 256, v % 256 >>

Put4Byte(v) ==
    << (v \div 16777216) % 256, (v \div 65536) % 256, (v \div 256) % 256, v % 256 >>

Get4Byte(b) == 16777216 * b[1] + 65536 * b[2] + 256 * b[3] + b[4]

\* putVarint32: seven bits of v per byte, most significant group first, the
\* high bit set in every byte but the last; the number of bytes written.
VarintLen(v) ==
    IF v < 128 THEN 1
    ELSE IF v < 16384 THEN 2
    ELSE IF v < 2097152 THEN 3
    ELSE IF v < 268435456 THEN 4
    ELSE 5

\* getVarint32 of the varint of v after its last byte was replaced by the
\* byte b < 128.
VarintWithLastByte(v, b) == (v \div 128) * 128 + b

(* ----------------------------- cells ----------------------------------- *)

\* A BTreeCell: the tag, the key and the union's fields (0 where unused).
Cell(type, key, child_page, keyPk, data_size, data) ==
    [type |-> type, key |-> key, child_page |-> child_page, keyPk |-> keyPk,
     data_size |-> data_size, data |-> data]

\* What chidb_Btree_insertCell serialises of a cell into a node of `type`.
StoredCell(type, cell) ==
    CASE type = PGTYPE_TABLE_INTERNAL ->
            Cell(type, cell.key, cell.child_page, 0, 0, 0)
      [] type = PGTYPE_TABLE_LEAF ->
            Cell(type, cell.key, 0, 0, cell.data_size, cell.data)
      [] type = PGTYPE_INDEX_INTERNAL ->
            Cell(type, cell.key, cell.child_page, cell.keyPk, 0, 0)
      [] type = PGTYPE_INDEX_LEAF ->
            Cell(type, cell.key, 0, cell.keyPk, 0, 0)

\* A cell size that leaves the data of a table leaf cell out.
CellSize_NoData(type, cell) ==
    CASE type = PGTYPE_TABLE_INTERNAL -> 8
      [] type = PGTYPE_TABLE_LEAF     -> 8
      [] type = PGTYPE_INDEX_INTERNAL -> 16
      [] type = PGTYPE_INDEX_LEAF     -> 12

CellSize(type, cell) ==
    CASE type = PGTYPE_TABLE_INTERNAL -> 8
      [] type = PGTYPE_TABLE_LEAF     -> 8 + cell.data_size
      [] type = PGTYPE_INDEX_INTERNAL -> 16
      [] type = PGTYPE_INDEX_LEAF     -> 12

(* ----------------------------- nodes ----------------------------------- *)

\* The node chidb_Btree_initEmptyNode writes to page npage when the pager's
\* page size is page_size.
InitEmptyNodeOfSize(npage, type, page_size) ==
    [npage        |-> npage,
     type         |-> type,
     free_offset  |-> HeaderSize(type) + NodeOrigin(npage),
     n_cells      |-> 0,
     cells_offset |-> U16(page_size),
     right_page   |-> 0,
     cells        |-> << >>,
     celloffset_array |-> << >>]

\* The same in the files of the trees below, whose page size is PageSize.
InitEmptyNode(npage, type) == InitEmptyNodeOfSize(npage, type, PageSize)

\* chidb_Pager_readPage answers CHIDB_EPAGENO for a page the file does not have.
ValidPage(pages, npage) == npage \in 1..Len(pages)

\* chidb_Btree_getNodeByPage: a private copy of the page's node.
GetNodeByPage(pages, npage) == pages[npage]

\* chidb_Btree_writeNode: the page now holds the node.
WriteNode(pages, btn) == [pages EXCEPT ![btn.npage] = btn]

\* chidb_Btree_getCell for 0 <= ncell < n_cells (cells are numbered from 0).
GetCell(btn, ncell) == btn.cells[ncell + 1]

InsertCellRc(btn, ncell) ==
    IF ncell > btn.n_cells THEN CHIDB_ECELLNO ELSE CHIDB_OK

\* The bytes of a cell offset array, entry by entry.
RECURSIVE ArrayBytes(_)
ArrayBytes(arr) ==
    IF arr = << >> THEN << >> ELSE Put2Byte(Head(arr)) \o ArrayBytes(Tail(arr))

\* The number of bytes the cell offset array and the cell area share.
Overlap(btn) ==
    IF btn.free_offset > btn.cells_offset
    THEN btn.free_offset - btn.cells_offset ELSE 0

\* chidb_Btree_insertCell writes the cell at cells_offset first and the cell
\* offset array afterwards, so where the two areas share k bytes the last k
\* bytes of the array replace the first k bytes of the new cell.  For k <= 4
\* in an internal node these are the leading bytes of child_page.
Overwritten(stored, k, bytes) ==
    [stored EXCEPT !.child_page =
        Get4Byte(SubSeq(bytes, Len(bytes) - k + 1, Len(bytes))
                 \o SubSeq(Put4Byte(stored.child_page), k + 1, 4))]

\* The new cell as the page holds it once the cell offset array `arr` is
\* written.
WrittenCell(type, stored, cells_offset, free_offset, arr) ==
    IF free_offset <= cells_offset THEN stored
    ELSE IF IsInternal(type) /\ free_offset - cells_offset <= 4
    THEN Overwritten(stored, free_offset - cells_offset, ArrayBytes(arr))
    ELSE stored

\* The node's cells are as the page bytes hold them: WrittenCell follows an
\* overlap of up to 4 bytes in an internal node and no other.
Exact(btn) == Overlap(btn) = 0 \/ (IsInternal(btn.type) /\ Overlap(btn) <= 4)

\* The node with `cell` added as cell number ncell, at cells_offset, and
\* the cell offset array `arr` ending at free_offset.
WithCell(btn, ncell, cell, cells_offset, free_offset, arr) ==
    [btn EXCEPT
        !.cells_offset = cells_offset,
        !.cells = SubSeq(btn.cells, 1, ncell)
                    \o << WrittenCell(btn.type, StoredCell(btn.type, cell),
                                      cells_offset, free_offset, arr) >>
                    \o SubSeq(btn.cells, ncell + 1, btn.n_cells),
        !.celloffset_array = arr,
        !.free_offset = free_offset,
        !.n_cells = U16(btn.n_cells + 1)]

\* chidb_Btree_insertCell: the node afterwards (unchanged on CHIDB_ECELLNO).
InsertCell(btn, ncell, cell) ==
    IF ncell > btn.n_cells THEN btn
    ELSE WithCell(btn, ncell, cell,
                  U16(btn.cells_offset - CellSize(btn.type, cell)),
                  U16(btn.free_offset + 2),
                  SubSeq(btn.celloffset_array, 1, ncell)
                    \o << U16(btn.cells_offset - CellSize(btn.type, cell)) >>
                    \o SubSeq(btn.celloffset_array, ncell + 1, btn.n_cells))

\* InsertCell is chidb_Btree_insertCell for the keys of the trees below,
\* whose varint has up to four bytes.  The key of a table cell is put with
\* putVarint32 at byte 4 of the cell, and the data of a leaf cell, or the
\* cell written before, begins at byte 8: the fifth byte of a key's varint
\* lies there.

\* The leaf cell getCell reads back once memcpy has put data[0] at byte 8 of
\* the cell, over the last byte of the key (data bytes are below 128 here).
KeyUnderData(cell) ==
    [cell EXCEPT !.key = VarintWithLastByte(cell.key, cell.data[1])]

\* A stored cell whose first byte became b: the varint of data_size in a
\* leaf cell (one byte, b <= data_size), the most significant byte of
\* child_page in an internal cell.
FirstByteSet(c, b) ==
    IF c.type = PGTYPE_TABLE_LEAF
    THEN [c EXCEPT !.data_size = b, !.data = SubSeq(c.data, 1, b)]
    ELSE [c EXCEPT !.child_page = (b * 16777216) + (c.child_page % 16777216)]

\* The node after the byte at its cells_offset, the first byte of the cell
\* written last, became b.
Clobbered(btn, b) ==
    [btn EXCEPT !.cells =
        [j \in 1..Len(btn.cells) |->
            IF btn.celloffset_array[j] = btn.cells_offset
            THEN FirstByteSet(btn.cells[j], b) ELSE btn.cells[j]]]

\* chidb_Btree_insertCell for every key of 32 bits.
chidb_Btree_insertCell(btn, ncell, cell) ==
    IF IsIndex(btn.type) \/ VarintLen(cell.key) <= 4 \/ ncell > btn.n_cells
    THEN InsertCell(btn, ncell, cell)
    ELSE IF CellSize(btn.type, cell) > 8
    THEN InsertCell(btn, ncell, KeyUnderData(cell))
    ELSE InsertCell(Clobbered(btn, cell.key % 128), ncell, cell)

\* The fifth byte of the key's varint is written behind the last byte of the
\* page buffer when the cell is the first of a node on a whole page.
WritesPastPage(btn, ncell, cell) ==
    /\ ncell <= btn.n_cells
    /\ ~IsIndex(btn.type) /\ VarintLen(cell.key) > 4
    /\ CellSize(btn.type, cell) = 8
    /\ \A j \in 1..Len(btn.cells) : btn.celloffset_array[j] # btn.cells_offset

chidb_Btree_nodeIsFull(btn, cell) ==
    LET cell_offset_size == 2
        free_space == U16(btn.cells_offset - btn.free_offset)
    IN  (cell_offset_size + CellSize(btn.type, cell)) > free_space

(* --------------------------- node handles ------------------------------ *)

\* What a call did with BTreeNode handles: the chidb_Btree_getNodeByPage
\* calls that returned CHIDB_OK (ok) and those that did not (failed), and the
\* chidb_Btree_freeMemNode calls made on a node of the former kind (freed_ok)
\* and on what one of the latter kind left in *btn (freed_failed).
Handles(ok, failed, freed_ok, freed_failed) ==
    [ok |-> ok, failed |-> failed, freed_ok |-> freed_ok,
     freed_failed |-> freed_failed]

NoHandles == Handles(0, 0, 0, 0)

HPlus(a, b) ==
    Handles(a.ok + b.ok, a.failed + b.failed, a.freed_ok + b.freed_ok,
            a.freed_failed + b.freed_failed)

\* getNodeByPage returned CHIDB_OK and the node was passed to freeMemNode.
LoadedAndFreed == Handles(1, 0, 1, 0)

\* getNodeByPage failed and the caller returned or went on without the node.
LoadFailed == Handles(0, 1, 0, 0)

\* getNodeByPage failed and the caller passed *btn to freeMemNode: the
\* BTreeNode it allocated, whose page field was never set.
LoadFailedAndFreed == Handles(0, 1, 0, 1)

(* ------------------------------ find ----------------------------------- *)

\* A descent that takes the page after the node's own for its right_page.
ChildAt_NextPage(btn, ncell) ==
    IF ncell = btn.n_cells THEN btn.npage + 1 ELSE GetCell(btn, ncell).child_page

\* The child an internal node routes position ncell to.
ChildAt(btn, ncell) ==
    IF ncell = btn.n_cells THEN btn.right_page ELSE GetCell(btn, ncell).child_page

\* The first ncell with key <= cell.key, or n_cells: the scan loops of
\* chidb_Btree_find (internal node), chidb_Btree_insertNonFull and findCell.
RECURSIVE ScanLE(_, _, _)
ScanLE(btn, key, ncell) ==
    IF ncell >= btn.n_cells THEN ncell
    ELSE IF key <= GetCell(btn, ncell).key THEN ncell
    ELSE ScanLE(btn, key, ncell + 1)

\* The result of chidb_Btree_find: rc, and *data / *size when rc is CHIDB_OK.
FindResult(rc, size, data) == [rc |-> rc, size |-> size, data |-> data]

\* A leaf lookup whose scan stops at the first cell with key <= cell.key and
\* answers with that cell, equal or not.
FindInLeaf_FirstGE(btn, key) ==
    LET ncell == ScanLE(btn, key, 0)
    IN  IF ncell = btn.n_cells THEN FindResult(CHIDB_ENOTFOUND, 0, << >>)
        ELSE LET cell == GetCell(btn, ncell)
             IN  IF btn.type = PGTYPE_INDEX_LEAF
                 THEN FindResult(CHIDB_OK, 4, HostBytes(cell.keyPk))
                 ELSE FindResult(CHIDB_OK, U16(cell.data_size), cell.data)

FindInLeaf(btn, key) ==
    LET ncell == ScanLE(btn, key, 0)
    IN  IF ncell = btn.n_cells THEN FindResult(CHIDB_ENOTFOUND, 0, << >>)
        ELSE LET cell == GetCell(btn, ncell)
             IN  IF key < cell.key THEN FindResult(CHIDB_ENOTFOUND, 0, << >>)
                 ELSE IF btn.type = PGTYPE_INDEX_LEAF
                      THEN FindResult(CHIDB_OK, 4, HostBytes(cell.keyPk))
                      ELSE FindResult(CHIDB_OK, U16(cell.data_size), cell.data)

RECURSIVE chidb_Btree_find(_, _, _)
chidb_Btree_find(pages, npage, key) ==
    LET btn == GetNodeByPage(pages, npage)
    IN  IF ~ValidPage(pages, npage) THEN FindResult(CHIDB_EPAGENO, 0, << >>)
        ELSE IF IsLeaf(btn.type) THEN FindInLeaf(btn, key)
        ELSE LET ncell == ScanLE(btn, key, 0)
             IN  IF ncell = btn.n_cells
                 THEN chidb_Btree_find(pages, btn.right_page, key)
                 ELSE LET cell == GetCell(btn, ncell)
                      IN  IF btn.type = PGTYPE_INDEX_INTERNAL /\ key = cell.key
                          THEN FindResult(CHIDB_OK, 4, HostBytes(cell.keyPk))
                          ELSE chidb_Btree_find(pages, cell.child_page, key)

\* The getNodeByPage calls of a chidb_Btree_find, in order, each with
\* whether it returned CHIDB_OK, when the pager serves `reads` more page
\* reads and fails every later one.
RECURSIVE FindLoads(_, _, _, _)
FindLoads(pages, npage, key, reads) ==
    IF reads = 0 \/ ~ValidPage(pages, npage) THEN << FALSE >>
    ELSE IF IsLeaf(pages[npage].type) THEN << TRUE >>
    ELSE IF /\ ScanLE(pages[npage], key, 0) < pages[npage].n_cells
            /\ pages[npage].type = PGTYPE_INDEX_INTERNAL
            /\ key = GetCell(pages[npage], ScanLE(pages[npage], key, 0)).key
    THEN << TRUE >>
    ELSE << TRUE >>
         \o FindLoads(pages, ChildAt(pages[npage], ScanLE(pages[npage], key, 0)),
                      key, reads - 1)

\* chidb_Btree_find passes btn to freeMemNode before every getNodeByPage
\* but the first and once more at "done:", so every getNodeByPage is
\* followed by one freeMemNode of what it left in btn.
RECURSIVE FindHandles(_)
FindHandles(loads) ==
    IF loads = << >> THEN NoHandles
    ELSE HPlus(IF Head(loads) THEN LoadedAndFreed ELSE LoadFailedAndFreed,
               FindHandles(Tail(loads)))

\* The code of the getNodeByPage that failed: chidb_Pager_readPage answers
\* CHIDB_EPAGENO for a page the file does not have and CHIDB_EIO otherwise.
RECURSIVE FindLoadRc(_, _, _, _)
FindLoadRc(pages, npage, key, reads) ==
    IF ~ValidPage(pages, npage) THEN CHIDB_EPAGENO
    ELSE IF reads = 0 THEN CHIDB_EIO
    ELSE FindLoadRc(pages, ChildAt(pages[npage], ScanLE(pages[npage], key, 0)),
                    key, reads - 1)

(* ------------------------------ split ---------------------------------- *)

\* "for (ncell = from; ncell <= to; ncell++, j++) insertCell(dst, j, getCell(src, ncell))"
RECURSIVE CopyCells(_, _, _, _, _)
CopyCells(src, from, to, dst, j) ==
    IF from > to THEN dst
    ELSE CopyCells(src, from + 1, to, InsertCell(dst, j, GetCell(src, from)), j + 1)

\* A promotion that does not carry the keyPk of an INDEX_LEAF median up.
ParentMedian_NoPk(median, npage_child2) ==
    CASE median.type = PGTYPE_INDEX_INTERNAL ->
            [median EXCEPT !.child_page = npage_child2]
      [] median.type = PGTYPE_TABLE_INTERNAL ->
            [median EXCEPT !.child_page = npage_child2]
      [] median.type = PGTYPE_INDEX_LEAF ->
            Cell(PGTYPE_INDEX_INTERNAL, median.key, npage_child2, 0, 0, 0)
      [] median.type = PGTYPE_TABLE_LEAF ->
            Cell(PGTYPE_TABLE_INTERNAL, median.key, npage_child2, 0, 0, 0)

\* The cell chidb_Btree_split adds to the parent for the median cell.
ParentMedian(median, npage_child2) ==
    CASE median.type = PGTYPE_INDEX_INTERNAL ->
            [median EXCEPT !.child_page = npage_child2]
      [] median.type = PGTYPE_TABLE_INTERNAL ->
            [median EXCEPT !.child_page = npage_child2]
      [] median.type = PGTYPE_INDEX_LEAF ->
            Cell(PGTYPE_INDEX_INTERNAL, median.key, npage_child2, median.keyPk, 0, 0)
      [] median.type = PGTYPE_TABLE_LEAF ->
            Cell(PGTYPE_TABLE_INTERNAL, median.key, npage_child2, 0, 0, 0)

\* A split that also moves the cell after the median to the new (left) node.
SplitLastLeft_PastMedian(child) ==
    IF (child.n_cells \div 2) + 1 < child.n_cells
    THEN (child.n_cells \div 2) + 1
    ELSE child.n_cells \div 2

\* The index of the last cell that goes to the new (left) node.
SplitLastLeft(child) ==
    IF child.type = PGTYPE_TABLE_LEAF
    THEN child.n_cells \div 2
    ELSE (child.n_cells \div 2) - 1

\* A root split that makes the root a TABLE_INTERNAL node in every tree.
SplitRootType_Table(child) == PGTYPE_TABLE_INTERNAL

\* A root split that leaves the type of the root page as it was.
SplitRootType_Kept(child) == child.type

\* The type of the node a split root page becomes.
SplitRootType(child) ==
    IF IsIndex(child.type) THEN PGTYPE_INDEX_INTERNAL ELSE PGTYPE_TABLE_INTERNAL

\* chidb_Btree_split: the file afterwards, the page of the new child, the
\* handles of child, child2, child1 and parent, which "err4:" to "err1:"
\* free in turn, and the arguments of the call.
chidb_Btree_split(pages, npage_parent, npage_child, parent_ncell) ==
    LET is_root      == npage_parent = 0
        child        == GetNodeByPage(pages, npage_child)
        \* chidb_Btree_newNode(bt, npage_child2, child->type)
        npage_child2 == Len(pages) + 1
        pg1          == Append(pages, InitEmptyNode(npage_child2, child.type))
        median_ncell == child.n_cells \div 2
        child2a      == CopyCells(child, 0, SplitLastLeft(child),
                                  GetNodeByPage(pg1, npage_child2), 0)
        median       == GetCell(child, median_ncell)
        child2       == IF IsInternal(child2a.type)
                        THEN [child2a EXCEPT !.right_page = median.child_page]
                        ELSE child2a
        \* the right half: a new page for a root, else the child's page wiped
        npage_child1 == IF is_root THEN Len(pg1) + 1 ELSE npage_child
        pg2          == IF is_root
                        THEN Append(pg1, InitEmptyNode(npage_child1, child.type))
                        ELSE [pg1 EXCEPT ![npage_child] =
                                            InitEmptyNode(npage_child, child.type)]
        child1a      == CopyCells(child, median_ncell + 1, child.n_cells - 1,
                                  GetNodeByPage(pg2, npage_child1), 0)
        child1       == IF IsInternal(child1a.type)
                        THEN [child1a EXCEPT !.right_page = child.right_page]
                        ELSE child1a
        pg3          == IF is_root
                        THEN [pg2 EXCEPT ![npage_child] =
                                 InitEmptyNode(npage_child, SplitRootType(child))]
                        ELSE pg2
        parent0      == GetNodeByPage(pg3, IF is_root THEN npage_child
                                                      ELSE npage_parent)
        parent1      == InsertCell(parent0, parent_ncell,
                                   ParentMedian(median, npage_child2))
        parent       == IF is_root
                        THEN [parent1 EXCEPT !.right_page = npage_child1]
                        ELSE parent1
    IN  [pages        |-> WriteNode(WriteNode(WriteNode(pg3, parent), child1), child2),
         rc           |-> CHIDB_OK,
         npage_child2 |-> npage_child2,
         h            |-> HPlus(HPlus(LoadedAndFreed, LoadedAndFreed),
                                HPlus(LoadedAndFreed, LoadedAndFreed)),
         npage_parent |-> npage_parent,
         npage_child  |-> npage_child,
         parent_ncell |-> parent_ncell]

(* ------------------------------ insert --------------------------------- *)

\* The result of an insert: the file, the code returned, the results of the
\* calls of chidb_Btree_split made on the way, oldest first, and what the
\* call did with node handles.
InsertResult(pages, rc) ==
    [pages |-> pages, rc |-> rc, splits |-> << >>, h |-> NoHandles]

AfterSplit(s, r) ==
    [r EXCEPT !.splits = << s >> \o r.splits, !.h = HPlus(s.h, r.h)]

\* The result r of the rest of a call that also did h with node handles.
WithHandles(h, r) == [r EXCEPT !.h = HPlus(h, r.h)]

\* chidb_Btree_insertNonFull.  `fuel` bounds the recursion.
RECURSIVE chidb_Btree_insertNonFull(_, _, _, _)
chidb_Btree_insertNonFull(pages, npage, btc, fuel) ==
    IF fuel = 0 THEN InsertResult(pages, NO_RETURN)
    ELSE IF ~ValidPage(pages, npage)
    THEN WithHandles(LoadFailed, InsertResult(pages, CHIDB_EPAGENO))
    ELSE
    \* btn is loaded here and freed at "done:" on every path below
    WithHandles(LoadedAndFreed,
    LET btn   == GetNodeByPage(pages, npage)
        ncell == ScanLE(btn, btc.key, 0)
        \* "rc = CHIDB_EDUPLICATE; goto done": rc is overwritten at done and
        \* the function returns ret, which is still -1
        dup   == /\ ncell < btn.n_cells
                 /\ btc.key = GetCell(btn, ncell).key
                 /\ IsLeaf(GetCell(btn, ncell).type)
    IN  IF dup THEN InsertResult(pages, RET_UNSET)
        ELSE IF IsLeaf(btn.type)
        THEN IF InsertCellRc(btn, ncell) # CHIDB_OK
             THEN InsertResult(pages, InsertCellRc(btn, ncell))
             ELSE InsertResult(WriteNode(pages, InsertCell(btn, ncell, btc)), CHIDB_OK)
        ELSE LET child_page    == ChildAt(btn, ncell)
                 child         == GetNodeByPage(pages, child_page)
                 child_is_full == chidb_Btree_nodeIsFull(child, btc)
             IN  IF ~ValidPage(pages, child_page)
                 THEN WithHandles(LoadFailed, InsertResult(pages, CHIDB_EPAGENO))
                 ELSE IF child_is_full
                 THEN LET s == chidb_Btree_split(pages, npage, child_page, ncell)
                      IN  WithHandles(LoadedAndFreed,
                            AfterSplit(s, chidb_Btree_insertNonFull(s.pages, npage,
                                                                    btc, fuel - 1)))
                 ELSE WithHandles(LoadedAndFreed,
                        chidb_Btree_insertNonFull(pages, child_page, btc, fuel - 1)))

\* chidb_Btree_insert
chidb_Btree_insert(pages, nroot, btc) ==
    LET root         == GetNodeByPage(pages, nroot)
        root_is_full == chidb_Btree_nodeIsFull(root, btc)
        s            == chidb_Btree_split(pages, 0, nroot, 0)
    IN  WithHandles(LoadedAndFreed,
          IF root_is_full
          THEN AfterSplit(s, chidb_Btree_insertNonFull(s.pages, nroot, btc, MaxFuel))
          ELSE chidb_Btree_insertNonFull(pages, nroot, btc, MaxFuel))

\* chidb_Btree_insertInTable
chidb_Btree_insertInTable(pages, nroot, key, data, size) ==
    chidb_Btree_insert(pages, nroot, Cell(PGTYPE_TABLE_LEAF, key, 0, 0, size, data))

\* chidb_Btree_insertInIndex
chidb_Btree_insertInIndex(pages, nroot, keyIdx, keyPk) ==
    chidb_Btree_insert(pages, nroot, Cell(PGTYPE_INDEX_LEAF, keyIdx, 0, keyPk, 0, 0))

(* ------------------------------- open ---------------------------------- *)

\* buf with `bytes` stored from offset off (counted from 0) on.
Store(buf, off, bytes) ==
    [i \in 1..Len(buf) |->
        IF i - 1 >= off /\ i - 1 < off + Len(bytes) THEN bytes[i - off] ELSE buf[i]]

\* n bytes of value v
Fill(n, v) == [i \in 1..n |-> v]

\* "SQLite format 3" with its terminating NUL, as strcpy copies it.
SQLiteFormat3 ==
    << 83, 81, 76, 105, 116, 101, 32, 102, 111, 114, 109, 97, 116, 32, 51, 0 >>

\* A header write that leaves out the memset of bytes 0x18..0x63.
WriteFileHeader_NoMemset(data, page_size) ==
    LET d1 == Store(data, 0, SQLiteFormat3)
        d2 == Store(d1, 16, Put2Byte(page_size))
        d3 == Store(d2, 18, << 1, 1, 0, 64, 32, 32 >>)
        d5 == Store(d3, 44, Put4Byte(1))
        d6 == Store(d5, 48, Put4Byte(20000))
    IN  Store(d6, 56, Put4Byte(1))

\* The stores chidb_Btree_open makes to the first 100 bytes of page 1.
WriteFileHeader(data, page_size) ==
    LET d1 == Store(data, 0, SQLiteFormat3)
        d2 == Store(d1, 16, Put2Byte(page_size))
        d3 == Store(d2, 18, << 1, 1, 0, 64, 32, 32 >>)
        d4 == Store(d3, 24, Fill(100 - 24, 0))
        d5 == Store(d4, 44, Put4Byte(1))
        d6 == Store(d5, 48, Put4Byte(20000))
    IN  Store(d6, 56, Put4Byte(1))

\* betole(&header[off])
betole(header, off) == Get4Byte(SubSeq(header, off + 1, off + 4))

\* A validation that requires the field at 0x2C to be 0 like its neighbours.
ValidateHeader_ZeroFormat(header) ==
    IF SubSeq(header, 1, 16) # SQLiteFormat3 THEN CHIDB_ECORRUPTHEADER
    ELSE IF \/ betole(header, 24) # 0
            \/ betole(header, 32) # 0 \/ betole(header, 36) # 0
            \/ betole(header, 40) # 0 \/ betole(header, 44) # 0
            \/ betole(header, 48) # 20000 \/ betole(header, 52) # 0
            \/ betole(header, 56) # 1 \/ betole(header, 60) # 0
            \/ betole(header, 64) # 0
    THEN CHIDB_ECORRUPTHEADER
    ELSE CHIDB_OK

\* The checks chidb_Btree_open makes of the header of a file that has one.
ValidateHeader(header) ==
    IF SubSeq(header, 1, 16) # SQLiteFormat3 THEN CHIDB_ECORRUPTHEADER
    ELSE IF \/ betole(header, 24) # 0
            \/ betole(header, 32) # 0 \/ betole(header, 36) # 0
            \/ betole(header, 40) # 0 \/ betole(header, 44) # 1
            \/ betole(header, 48) # 20000 \/ betole(header, 52) # 0
            \/ betole(header, 56) # 1 \/ betole(header, 60) # 0
            \/ betole(header, 64) # 0
    THEN CHIDB_ECORRUPTHEADER
    ELSE CHIDB_OK

\* chidb_Btree_open of a file whose first 100 bytes are `header` (<< >> when
\* the file is empty: chidb_Pager_readHeader answers CHIDB_NOHEADER) and whose
\* pages hold the nodes `pages`; `fresh` is what the first 100 bytes of a
\* newly allocated page 1 hold.  The result: the code returned, the header
\* and the pages of the file, the page size the pager is left with.
chidb_Btree_open(header, pages, fresh) ==
    IF header = << >>
    THEN [rc        |-> CHIDB_OK,
          header    |-> WriteFileHeader(fresh, DEFAULT_PAGE_SIZE),
          pages     |-> Append(pages, InitEmptyNodeOfSize(Len(pages) + 1,
                                         PGTYPE_TABLE_LEAF, DEFAULT_PAGE_SIZE)),
          page_size |-> DEFAULT_PAGE_SIZE]
    ELSE [rc        |-> ValidateHeader(header),
          header    |-> header,
          pages     |-> pages,
          page_size |-> header[17] * 256 + header[18]]

(* ------------------------------ cursor --------------------------------- *)

\* nodes[i] == NULL
NoNode ==
    [npage |-> 0, type |-> "NULL", free_offset |-> 0, n_cells |-> 0,
     cells_offset |-> 0, right_page |-> 0, cells |-> << >>,
     celloffset_array |-> << >>]

\* A BTreeCell local variable before anything is read into it; in no call
\* below is it read in that state.
NoCell == Cell("NULL", -1, 0, 0, 0, 0)

\* Values cells[0] may hold after chidb_dbm_cursor_init, which does not set it.
UninitCellNos == {0, 1, 9}

\* depth is numbered from 0; nodes and cells are 1-based sequences here.
chidb_dbm_cursor_getCurrentCellNo(cur) == cur.cells[cur.depth + 1]

chidb_dbm_cursor_getCurrentNode(cur) == cur.nodes[cur.depth + 1]

chidb_dbm_cursor_currentNodeIsLeaf(cur) ==
    IsLeaf(chidb_dbm_cursor_getCurrentNode(cur).type)

SetCellNo(cur, v) == [cur EXCEPT !.cells[cur.depth + 1] = v]

\* chidb_dbm_cursor_init with the value v left in cells[0]
chidb_dbm_cursor_init(pages, nroot, v) ==
    [open  |-> TRUE,
     depth |-> 0,
     cells |-> [i \in 1..DEFAULT_CURSOR_MAX_DEPTH |-> IF i = 1 THEN v ELSE 0],
     nodes |-> [i \in 1..DEFAULT_CURSOR_MAX_DEPTH |->
                   IF i = 1 THEN GetNodeByPage(pages, nroot) ELSE NoNode]]

\* The cursor after chidb_dbm_cursor_free.
ClosedCursor ==
    [open  |-> FALSE,
     depth |-> 0,
     cells |-> [i \in 1..DEFAULT_CURSOR_MAX_DEPTH |-> 0],
     nodes |-> [i \in 1..DEFAULT_CURSOR_MAX_DEPTH |-> NoNode]]

\* A descent that follows right_page whatever the current cell number is.
goDownCurrentCell_RightPage(cur, pages) ==
    LET btn == chidb_dbm_cursor_getCurrentNode(cur)
    IN  [cur EXCEPT !.depth = cur.depth + 1,
                    !.cells[cur.depth + 2] = 0,
                    !.nodes[cur.depth + 2] = GetNodeByPage(pages, btn.right_page)]

chidb_dbm_cursor_goDownCurrentCell(cur, pages) ==
    LET btn       == chidb_dbm_cursor_getCurrentNode(cur)
        cellno    == chidb_dbm_cursor_getCurrentCellNo(cur)
        next_page == IF cellno = btn.n_cells THEN btn.right_page
                     ELSE GetCell(btn, cellno).child_page
    IN  [cur EXCEPT !.depth = cur.depth + 1,
                    !.cells[cur.depth + 2] = 0,
                    !.nodes[cur.depth + 2] = GetNodeByPage(pages, next_page)]

chidb_dbm_cursor_goToParent(cur) ==
    [cur EXCEPT !.nodes[cur.depth + 1] = NoNode, !.depth = cur.depth - 1]

\* "while (!currentNodeIsLeaf(cursor)) goDownCurrentCell(cursor);"
RECURSIVE DescendToLeaf(_, _)
DescendToLeaf(cur, pages) ==
    IF chidb_dbm_cursor_currentNodeIsLeaf(cur) THEN cur
    ELSE DescendToLeaf(chidb_dbm_cursor_goDownCurrentCell(cur, pages), pages)

\* "while (cursor->depth != 0) goToParent(cursor);"
RECURSIVE AscendToRoot(_)
AscendToRoot(cur) ==
    IF cur.depth = 0 THEN cur ELSE AscendToRoot(chidb_dbm_cursor_goToParent(cur))

CursorResult(cur, rc) == [cur |-> cur, rc |-> rc]

\* The do-while of chidb_dbm_cursor_next: up to the closest ancestor whose
\* current cell number is below n_cells.
RECURSIVE NextAscend(_)
NextAscend(cur) ==
    IF cur.depth = 0 THEN CursorResult(cur, CHIDB_CURSOR_ENONEXT)
    ELSE LET up == chidb_dbm_cursor_goToParent(cur)
         IN  IF chidb_dbm_cursor_getCurrentCellNo(up)
                    >= chidb_dbm_cursor_getCurrentNode(up).n_cells
             THEN NextAscend(up)
             ELSE CursorResult(up, CHIDB_OK)

\* "cells[i] == nodes[i]->n_cells for every i < depth"
AllRight(cur) ==
    \A i \in 0..(cur.depth - 1) : cur.cells[i + 1] = cur.nodes[i + 1].n_cells

\* A next that walks up from the end of a leaf without first testing
\* "depth == 0" and all_right.
NextBody_NoAllRight(cur, pages) ==
    LET btn == chidb_dbm_cursor_getCurrentNode(cur)
    IN  IF chidb_dbm_cursor_getCurrentCellNo(cur) + 1 < btn.n_cells
        THEN LET c1 == SetCellNo(cur, U16(chidb_dbm_cursor_getCurrentCellNo(cur) + 1))
             IN  IF btn.type = PGTYPE_INDEX_INTERNAL
                 THEN CursorResult(DescendToLeaf(c1, pages), CHIDB_OK)
                 ELSE CursorResult(c1, CHIDB_OK)
        ELSE IF chidb_dbm_cursor_currentNodeIsLeaf(cur)
        THEN LET a == NextAscend(cur)
             IN  IF a.rc # CHIDB_OK THEN a
                 ELSE IF chidb_dbm_cursor_getCurrentNode(a.cur).type
                             = PGTYPE_INDEX_INTERNAL
                 THEN a
                 ELSE CursorResult(
                        DescendToLeaf(
                          SetCellNo(a.cur,
                             U16(chidb_dbm_cursor_getCurrentCellNo(a.cur) + 1)),
                          pages),
                        CHIDB_OK)
        ELSE IF btn.type = PGTYPE_INDEX_INTERNAL
        THEN CursorResult(DescendToLeaf(SetCellNo(cur, btn.n_cells), pages), CHIDB_OK)
        ELSE CursorResult(cur, CHIDB_OK)

NextBody(cur, pages) ==
    LET btn == chidb_dbm_cursor_getCurrentNode(cur)
    IN  IF chidb_dbm_cursor_getCurrentCellNo(cur) + 1 < btn.n_cells
        THEN LET c1 == SetCellNo(cur, U16(chidb_dbm_cursor_getCurrentCellNo(cur) + 1))
             IN  IF btn.type = PGTYPE_INDEX_INTERNAL
                 THEN CursorResult(DescendToLeaf(c1, pages), CHIDB_OK)
                 ELSE CursorResult(c1, CHIDB_OK)
        ELSE IF chidb_dbm_cursor_currentNodeIsLeaf(cur)
        THEN IF cur.depth = 0 \/ AllRight(cur)
             THEN CursorResult(cur, CHIDB_CURSOR_ENONEXT)
             ELSE LET a == NextAscend(cur)
                  IN  IF a.rc # CHIDB_OK THEN a
                      ELSE IF chidb_dbm_cursor_getCurrentNode(a.cur).type
                                  = PGTYPE_INDEX_INTERNAL
                      THEN a
                      ELSE CursorResult(
                             DescendToLeaf(
                               SetCellNo(a.cur,
                                  U16(chidb_dbm_cursor_getCurrentCellNo(a.cur) + 1)),
                               pages),
                             CHIDB_OK)
        ELSE IF btn.type = PGTYPE_INDEX_INTERNAL
        THEN CursorResult(DescendToLeaf(SetCellNo(cur, btn.n_cells), pages), CHIDB_OK)
        ELSE CursorResult(cur, CHIDB_OK)

\* chidb_dbm_cursor_next, with its entry and exit assertions
chidb_dbm_cursor_next(cur, pages) ==
    IF chidb_dbm_cursor_getCurrentNode(cur).type = PGTYPE_TABLE_INTERNAL
    THEN CursorResult(cur, ASSERT_FAILED)
    ELSE LET r == NextBody(cur, pages)
         IN  IF chidb_dbm_cursor_getCurrentNode(r.cur).type = PGTYPE_TABLE_INTERNAL
             THEN CursorResult(r.cur, ASSERT_FAILED)
             ELSE r

\* "do { goToParent(cursor); } while (getCurrentCellNo(cursor) == 0);"
RECURSIVE PrevAscend(_)
PrevAscend(cur) ==
    LET up == chidb_dbm_cursor_goToParent(cur)
    IN  IF chidb_dbm_cursor_getCurrentCellNo(up) = 0 THEN PrevAscend(up) ELSE up

\* "while (!leaf) { goDownCurrentCell; cells[depth] = node->n_cells; }"
RECURSIVE PrevDescend(_, _)
PrevDescend(cur, pages) ==
    IF chidb_dbm_cursor_currentNodeIsLeaf(cur) THEN cur
    ELSE LET d == chidb_dbm_cursor_goDownCurrentCell(cur, pages)
         IN  PrevDescend(SetCellNo(d, chidb_dbm_cursor_getCurrentNode(d).n_cells),
                         pages)

AllLeft(cur) == \A i \in 0..(cur.depth - 1) : ~(cur.cells[i + 1] > 0)

chidb_dbm_cursor_prev(cur, pages) ==
    IF chidb_dbm_cursor_getCurrentNode(cur).type = PGTYPE_TABLE_INTERNAL
    THEN CursorResult(cur, ASSERT_FAILED)
    ELSE IF chidb_dbm_cursor_getCurrentCellNo(cur) - 1 >= 0
    THEN CursorResult(SetCellNo(cur, chidb_dbm_cursor_getCurrentCellNo(cur) - 1),
                      CHIDB_OK)
    ELSE IF cur.depth = 0 \/ AllLeft(cur)
    THEN CursorResult(cur, CHIDB_CURSOR_ENOPREV)
    ELSE LET up   == PrevAscend(cur)
             dec  == SetCellNo(up, chidb_dbm_cursor_getCurrentCellNo(up) - 1)
             down == PrevDescend(dec, pages)
         IN  CursorResult(
               SetCellNo(down, U16(chidb_dbm_cursor_getCurrentNode(down).n_cells - 1)),
               CHIDB_OK)

\* findCell: the index it returns
findCell(btn, key) == ScanLE(btn, key, 0)

\* findCell: what *cell holds afterwards, the last cell the scan read
\* (`cell` itself when the node has no cells)
findCellCell(btn, key, cell) ==
    IF btn.n_cells = 0 THEN cell
    ELSE IF findCell(btn, key) < btn.n_cells THEN GetCell(btn, findCell(btn, key))
    ELSE GetCell(btn, btn.n_cells - 1)

SeekResult(cur, i, cell) == [cur |-> cur, i |-> i, cell |-> cell]

\* The descent of seek_partial from the cursor's current node.
RECURSIVE SeekDescend(_, _, _, _)
SeekDescend(cur, key, cell, pages) ==
    LET btn == chidb_dbm_cursor_getCurrentNode(cur)
        i   == findCell(btn, key)
        c   == findCellCell(btn, key, cell)
        at  == SetCellNo(cur, i)
    IN  IF chidb_dbm_cursor_currentNodeIsLeaf(cur) THEN SeekResult(at, i, c)
        ELSE IF btn.type = PGTYPE_INDEX_INTERNAL /\ c.key = key
        THEN SeekResult(at, i, c)
        ELSE SeekDescend(chidb_dbm_cursor_goDownCurrentCell(at, pages), key, c, pages)

seek_partial(cur, key, pages) == SeekDescend(AscendToRoot(cur), key, NoCell, pages)

\* A seek that does not test "key != cell.key".
seek_NoKeyTest(cur, key, pages) ==
    LET s   == seek_partial(cur, key, pages)
        btn == chidb_dbm_cursor_getCurrentNode(s.cur)
    IN  IF s.i = btn.n_cells THEN CursorResult(s.cur, CHIDB_CURSOR_EKEYNOTFOUND)
        ELSE CursorResult(s.cur, CHIDB_OK)

chidb_dbm_cursor_seek(cur, key, pages) ==
    LET s   == seek_partial(cur, key, pages)
        btn == chidb_dbm_cursor_getCurrentNode(s.cur)
    IN  IF s.i = btn.n_cells THEN CursorResult(s.cur, CHIDB_CURSOR_EKEYNOTFOUND)
        ELSE IF key # s.cell.key THEN CursorResult(s.cur, CHIDB_CURSOR_EKEYNOTFOUND)
        ELSE CursorResult(s.cur, CHIDB_OK)

\* "rc = next(cursor); if (rc == ENONEXT) return EKEYNOTFOUND; return OK;"
NextOrNotFound(cur, pages) ==
    LET n == chidb_dbm_cursor_next(cur, pages)
    IN  IF n.rc = CHIDB_CURSOR_ENONEXT
        THEN CursorResult(n.cur, CHIDB_CURSOR_EKEYNOTFOUND)
        ELSE IF n.rc = ASSERT_FAILED THEN n
        ELSE CursorResult(n.cur, CHIDB_OK)

\* A seekge that treats the end of an index leaf as the end of the tree, as
\* it does for a table leaf.
seekge_NoAdvance(cur, key, pages) ==
    LET s   == seek_partial(cur, key, pages)
        btn == chidb_dbm_cursor_getCurrentNode(s.cur)
    IN  IF s.i = btn.n_cells
        THEN IF IsLeaf(btn.type)
             THEN CursorResult(s.cur, CHIDB_CURSOR_EKEYNOTFOUND)
             ELSE CursorResult(s.cur, CHIDB_OK)
        ELSE CursorResult(s.cur, CHIDB_OK)

chidb_dbm_cursor_seekge(cur, key, pages) ==
    LET s   == seek_partial(cur, key, pages)
        btn == chidb_dbm_cursor_getCurrentNode(s.cur)
    IN  IF s.i = btn.n_cells
        THEN IF btn.type = PGTYPE_TABLE_LEAF
             THEN CursorResult(s.cur, CHIDB_CURSOR_EKEYNOTFOUND)
             ELSE IF IsIndex(btn.type) THEN NextOrNotFound(s.cur, pages)
             ELSE CursorResult(s.cur, CHIDB_OK)
        ELSE IF btn.type = PGTYPE_INDEX_LEAF /\ key > s.cell.key
             THEN NextOrNotFound(s.cur, pages)
             ELSE CursorResult(s.cur, CHIDB_OK)

\* A seekgt that does not step past a cell whose key equals the sought key.
seekgt_NoStep(cur, key, pages) ==
    LET s   == seek_partial(cur, key, pages)
        btn == chidb_dbm_cursor_getCurrentNode(s.cur)
    IN  IF btn.type = PGTYPE_TABLE_INTERNAL THEN CursorResult(s.cur, ASSERT_FAILED)
        ELSE IF s.i = btn.n_cells
        THEN IF btn.type = PGTYPE_INDEX_INTERNAL
             THEN CursorResult(s.cur, ASSERT_FAILED)
             ELSE NextOrNotFound(s.cur, pages)
        ELSE CursorResult(s.cur, CHIDB_OK)

chidb_dbm_cursor_seekgt(cur, key, pages) ==
    LET s   == seek_partial(cur, key, pages)
        btn == chidb_dbm_cursor_getCurrentNode(s.cur)
    IN  IF btn.type = PGTYPE_TABLE_INTERNAL THEN CursorResult(s.cur, ASSERT_FAILED)
        ELSE IF s.i = btn.n_cells
        THEN IF btn.type = PGTYPE_INDEX_INTERNAL
             THEN CursorResult(s.cur, ASSERT_FAILED)
             ELSE NextOrNotFound(s.cur, pages)
        ELSE IF key = s.cell.key THEN NextOrNotFound(s.cur, pages)
        ELSE CursorResult(s.cur, CHIDB_OK)

\* A rewind that goes up to the root and stays there.
rewind_RootOnly(cur, pages) ==
    CursorResult(SetCellNo(AscendToRoot(cur), 0), CHIDB_OK)

chidb_dbm_cursor_rewind(cur, pages) ==
    CursorResult(DescendToLeaf(SetCellNo(AscendToRoot(cur), 0), pages), CHIDB_OK)

(* --------------------------- state machine ----------------------------- *)

VARIABLES
    header,   \* the file: its first 100 bytes, << >> while the file is empty
    pages,    \* the file: pages[n] is the node page n holds
    root,     \* root page of the tree the caller works on
    cursor,   \* the caller's chidb_dbm_cursor_t
    last,     \* the last call: its name, key argument and what it returned
    given,    \* the (key, payload) pairs of the inserts that returned CHIDB_OK
    ncalls,   \* number of insert calls made since the tree was seeded
    trail,    \* keys the caller read off the cursor since the last rewind
    handles   \* what the last find or insert did with node handles

vars == << header, pages, root, cursor, last, given, ncalls, trail, handles >>

\* The data bytes a caller offers for key k.
TableData(k, salt, size) ==
    [i \in 1..size |-> IF i = 1 THEN k ELSE IF i = 2 THEN salt ELSE 0]

\* The keyPk a caller offers for index key k.
IndexPk(k, salt) == 256 * k + salt

\* The cell insert_in_table / insert_in_index builds for an entry.
EntryCell(isIndex, k, salt, size) ==
    IF isIndex
    THEN Cell(PGTYPE_INDEX_LEAF, k, 0, IndexPk(k, salt), 0, 0)
    ELSE Cell(PGTYPE_TABLE_LEAF, k, 0, 0, size, TableData(k, salt, size))

\* The payload of an entry as chidb_Btree_find hands it out: size and bytes.
EntryGiven(isIndex, k, salt, size) ==
    IF isIndex
    THEN [key |-> k, size |-> 4, data |-> HostBytes(IndexPk(k, salt))]
    ELSE [key |-> k, size |-> size, data |-> TableData(k, salt, size)]

Call(op, key, rc, size, data) ==
    [op |-> op, key |-> key, rc |-> rc, size |-> size, data |-> data]

NoTrail == [mode |-> "none", keys |-> << >>, back |-> 0]

\* The process is alive: no call aborted it or failed to return.
Running == last.rc \notin {ASSERT_FAILED, NO_RETURN, CRASHED}

TreeIsIndex == IsIndex(pages[root].type)

\* The pages an internal node names: the child_page of every cell and the
\* right_page.
Children(btn) ==
    IF IsInternal(btn.type)
    THEN { btn.cells[i].child_page : i \in 1..btn.n_cells } \cup { btn.right_page }
    ELSE {}

\* The pages of the file that a descent from page npage comes to, at most
\* `depth` levels down.
RECURSIVE PagesUnder(_, _, _)
PagesUnder(pgs, npage, depth) ==
    IF ~ValidPage(pgs, npage) THEN {}
    ELSE IF depth = 0 THEN { npage }
    ELSE { npage } \cup UNION { PagesUnder(pgs, c, depth - 1) :
                                   c \in Children(pgs[npage]) }

TreePages(pgs, nroot) == PagesUnder(pgs, nroot, Len(pgs))

\* The nodes of the tree in file pgs.
TreeNodes(pgs) == { pgs[p] : p \in TreePages(pgs, root) }

\* The cursor rests on an existing cell.
OnCell(cur) ==
    chidb_dbm_cursor_getCurrentCellNo(cur) < chidb_dbm_cursor_getCurrentNode(cur).n_cells

\* The key a caller reads at the cursor (-1: there is no such cell).
CurKey(cur) ==
    IF OnCell(cur)
    THEN GetCell(chidb_dbm_cursor_getCurrentNode(cur),
                 chidb_dbm_cursor_getCurrentCellNo(cur)).key
    ELSE -1

\* The file after the inserts of the keys of seq, in that order, each with
\* salt 0 and data size `size`, into the tree rooted at nroot, and CHIDB_OK
\* when every one of them returned it.
RECURSIVE SeedPages(_, _, _, _, _)
SeedPages(pgs, nroot, isIndex, size, seq) ==
    IF seq = << >> THEN InsertResult(pgs, CHIDB_OK)
    ELSE LET r == chidb_Btree_insert(pgs, nroot,
                                     EntryCell(isIndex, Head(seq), 0, size))
         IN  IF r.rc # CHIDB_OK THEN r
             ELSE SeedPages(r.pages, nroot, isIndex, size, Tail(seq))

\* Insertion orders the tree is seeded with: a seed is a prefix of one.
SeedOrders ==
    { << 2, 3, 4, 6, 7, 8, 9 >>,
      << 9, 8, 7, 6, 4, 3, 2 >>,
      << 6, 2, 8, 3, 9, 4, 7 >> }

SeedLengths == {0, 3, 5, 7}

Seeds == { SubSeq(o, 1, n) : o \in SeedOrders, n \in SeedLengths }

\* chidb_Btree_open on an empty file made page 1 (the schema table's root,
\* which is left alone here: the scaled-down page has no room behind the
\* 100-byte file header); chidb_Btree_newNode made page 2, the root of a
\* table or an index tree, and the entries of a seed were inserted into it.
Init ==
    /\ \E type \in {PGTYPE_TABLE_LEAF, PGTYPE_INDEX_LEAF}, seed \in Seeds,
          size \in DataSizes :
          LET seeded == SeedPages(<< InitEmptyNode(1, PGTYPE_TABLE_LEAF),
                                     InitEmptyNode(2, type) >>,
                                  2, IsIndex(type), size, seed)
          IN
          /\ seeded.rc = CHIDB_OK
          /\ pages = seeded.pages
          /\ given = { EntryGiven(IsIndex(type), seed[i], 0, size) :
                          i \in 1..Len(seed) }
    /\ header = WriteFileHeader(Fill(100, 0), PageSize)
    /\ root = 2
    /\ cursor = ClosedCursor
    /\ last = Call("open", 0, CHIDB_OK, 0, << >>)
    /\ ncalls = 0
    /\ trail = NoTrail
    /\ handles = NoHandles

\* chidb_Btree_insertInTable(bt, root, k, data, size) and
\* chidb_Btree_insertInIndex(bt, root, k, keyPk)
Insert(k, salt, size) ==
    /\ Running /\ ~cursor.open /\ ncalls < MaxInserts
    /\ \A btn \in TreeNodes(pages) : Overlap(btn) = 0
    /\ LET e == EntryGiven(TreeIsIndex, k, salt, size)
           r == IF TreeIsIndex
                THEN chidb_Btree_insertInIndex(pages, root, k, IndexPk(k, salt))
                ELSE chidb_Btree_insertInTable(pages, root, k,
                                               TableData(k, salt, size), size)
       IN  /\ pages' = IF r.rc = NO_RETURN THEN pages ELSE r.pages
           /\ last' = Call("insert", k, r.rc, e.size, e.data)
           /\ given' = IF r.rc = CHIDB_OK THEN given \cup {e} ELSE given
           /\ handles' = r.h
    /\ ncalls' = ncalls + 1
    /\ trail' = NoTrail
    /\ UNCHANGED << header, root, cursor >>

\* chidb_Btree_find(bt, root, k, &data, &size)
Find(k) ==
    /\ Running /\ ~cursor.open
    /\ LET r == chidb_Btree_find(pages, root, k)
       IN  last' = Call("find", k, r.rc, r.size, r.data)
    /\ handles' = FindHandles(FindLoads(pages, root, k, Len(pages)))
    /\ trail' = NoTrail
    /\ UNCHANGED << header, pages, root, cursor, given, ncalls >>

\* The number of page reads the pager serves before an I/O error sets in.
PagerReads == 0..2

\* chidb_Btree_find(bt, root, k, &data, &size) while the pager fails: the
\* call passes what the failed getNodeByPage left in btn to freeMemNode,
\* which releases the page of a BTreeNode whose page field was never set
\* and then frees the node; the call returns the pager's code or the process
\* ends there.
FindFailing(k, reads) ==
    /\ Running /\ ~cursor.open
    /\ FALSE \in { FindLoads(pages, root, k, reads)[i] :
                      i \in 1..Len(FindLoads(pages, root, k, reads)) }
    /\ \E rc \in { FindLoadRc(pages, root, k, reads), CRASHED } :
          last' = Call("find", k, rc, 0, << >>)
    /\ handles' = FindHandles(FindLoads(pages, root, k, reads))
    /\ trail' = NoTrail
    /\ UNCHANGED << header, pages, root, cursor, given, ncalls >>

\* chidb_dbm_cursor_init(cursor, type, bt, root)
CursorInit(v) ==
    /\ Running /\ ~cursor.open
    /\ cursor' = chidb_dbm_cursor_init(pages, root, v)
    /\ last' = Call("init", 0, CHIDB_OK, 0, << >>)
    /\ trail' = NoTrail
    /\ UNCHANGED << header, pages, root, given, ncalls, handles >>

\* chidb_dbm_cursor_free(cursor)
CursorFree ==
    /\ Running /\ cursor.open
    /\ cursor' = ClosedCursor
    /\ last' = Call("free", 0, CHIDB_OK, 0, << >>)
    /\ trail' = NoTrail
    /\ UNCHANGED << header, pages, root, given, ncalls, handles >>

\* chidb_dbm_cursor_rewind(cursor)
Rewind ==
    /\ Running /\ cursor.open
    /\ LET r == chidb_dbm_cursor_rewind(cursor, pages)
       IN  /\ cursor' = r.cur
           /\ last' = Call("rewind", 0, r.rc, 0, << >>)
           /\ trail' = [mode |-> "scan", keys |-> << CurKey(r.cur) >>, back |-> 0]
    /\ UNCHANGED << header, pages, root, given, ncalls, handles >>

\* chidb_dbm_cursor_next(cursor)
Next_ ==
    /\ Running /\ cursor.open
    /\ LET r == chidb_dbm_cursor_next(cursor, pages)
       IN  /\ cursor' = r.cur
           /\ last' = Call("next", 0, r.rc, 0, << >>)
           /\ trail' = IF trail.mode = "scan" /\ r.rc = CHIDB_OK
                       THEN [trail EXCEPT !.keys = Append(trail.keys, CurKey(r.cur))]
                       ELSE IF trail.mode = "scan" /\ r.rc = CHIDB_CURSOR_ENONEXT
                       THEN trail
                       ELSE NoTrail
    /\ UNCHANGED << header, pages, root, given, ncalls, handles >>

\* chidb_dbm_cursor_prev(cursor)
Prev ==
    /\ Running /\ cursor.open
    /\ LET r == chidb_dbm_cursor_prev(cursor, pages)
       IN  /\ cursor' = r.cur
           /\ last' = Call("prev", 0, r.rc, 0, << >>)
           /\ trail' = IF trail.mode \in {"scan", "back"}
                          /\ trail.back + 1 < Len(trail.keys)
                       THEN [trail EXCEPT !.mode = "back", !.back = trail.back + 1]
                       ELSE NoTrail
    /\ UNCHANGED << header, pages, root, given, ncalls, handles >>

\* chidb_dbm_cursor_seek(cursor, k)
Seek(k) ==
    /\ Running /\ cursor.open
    /\ LET r == chidb_dbm_cursor_seek(cursor, k, pages)
       IN  /\ cursor' = r.cur
           /\ last' = Call("seek", k, r.rc, 0, << >>)
    /\ trail' = NoTrail
    /\ UNCHANGED << header, pages, root, given, ncalls, handles >>

\* chidb_dbm_cursor_seekge(cursor, k)
SeekGe(k) ==
    /\ Running /\ cursor.open
    /\ LET r == chidb_dbm_cursor_seekge(cursor, k, pages)
       IN  /\ cursor' = r.cur
           /\ last' = Call("seekge", k, r.rc, 0, << >>)
    /\ trail' = NoTrail
    /\ UNCHANGED << header, pages, root, given, ncalls, handles >>

\* chidb_dbm_cursor_seekgt(cursor, k)
SeekGt(k) ==
    /\ Running /\ cursor.open
    /\ LET r == chidb_dbm_cursor_seekgt(cursor, k, pages)
       IN  /\ cursor' = r.cur
           /\ last' = Call("seekgt", k, r.rc, 0, << >>)
    /\ trail' = NoTrail
    /\ UNCHANGED << header, pages, root, given, ncalls, handles >>

\* The B-tree calls alone.
NextBtree ==
    \/ \E k \in Keys, salt \in Salts, size \in DataSizes : Insert(k, salt, size)
    \/ \E k \in Keys : Find(k)

SpecBtree == Init /\ [][NextBtree]_vars

\* The B-tree calls on a pager that may fail.
NextHandles ==
    \/ \E k \in Keys, salt \in Salts, size \in DataSizes : Insert(k, salt, size)
    \/ \E k \in Keys : Find(k)
    \/ \E k \in Keys, reads \in PagerReads : FindFailing(k, reads)

SpecHandles == Init /\ [][NextHandles]_vars

\* Inserts, and a cursor that is rewound and stepped.
NextScan ==
    \/ \E k \in Keys, size \in DataSizes : Insert(k, 1, size)
    \/ \E v \in UninitCellNos : CursorInit(v)
    \/ CursorFree
    \/ Rewind
    \/ Next_
    \/ Prev

SpecScan == Init /\ [][NextScan]_vars

\* Inserts, and a cursor that is positioned by key and stepped forward.
NextSeek ==
    \/ \E k \in Keys, size \in DataSizes : Insert(k, 1, size)
    \/ \E v \in UninitCellNos : CursorInit(v)
    \/ CursorFree
    \/ \E k \in Keys : Seek(k)
    \/ \E k \in Keys : SeekGe(k)
    \/ \E k \in Keys : SeekGt(k)
    \/ Next_

SpecSeek == Init /\ [][NextSeek]_vars

\* Every call a cursor takes, on the seeded trees.
NextCursor ==
    \/ \E v \in UninitCellNos : CursorInit(v)
    \/ CursorFree
    \/ Rewind
    \/ Next_
    \/ Prev
    \/ \E k \in Keys : Seek(k)
    \/ \E k \in Keys : SeekGe(k)
    \/ \E k \in Keys : SeekGt(k)

SpecCursor == Init /\ [][NextCursor]_vars

\* A byte a file's header may hold in place of the one a new file has there.
HeaderBytes == {0, 1, 2, 127}

\* What the first 100 bytes of a newly allocated page may hold.
FreshPages == { Fill(100, 0), Fill(100, 255) }

\* The files chidb_Btree_open is called on: the empty file, and files whose
\* header differs in at most one byte from that of a new file.
OpenHeaders ==
    { << >> } \cup
    { Store(WriteFileHeader(Fill(100, 0), DEFAULT_PAGE_SIZE), p, << v >>) :
         p \in 0..99, v \in HeaderBytes }

\* A file before it is opened.
InitOpen ==
    /\ header \in OpenHeaders
    /\ pages = IF header = << >> THEN << >>
               ELSE << InitEmptyNodeOfSize(1, PGTYPE_TABLE_LEAF, DEFAULT_PAGE_SIZE) >>
    /\ root = 1
    /\ cursor = ClosedCursor
    /\ last = Call("start", 0, CHIDB_OK, 0, << >>)
    /\ given = {}
    /\ ncalls = 0
    /\ trail = NoTrail
    /\ handles = NoHandles

\* chidb_Btree_open(filename, db, &bt); last.size is the number of header
\* bytes the file had.
Open ==
    /\ last.op = "start"
    /\ \E fresh \in FreshPages :
          LET r == chidb_Btree_open(header, pages, fresh)
          IN  /\ header' = r.header
              /\ pages' = r.pages
              /\ last' = Call("open", 0, r.rc, Len(header), << >>)
    /\ UNCHANGED << root, cursor, given, ncalls, trail, handles >>

NextOpen == Open

SpecOpen == InitOpen /\ [][NextOpen]_vars

\* Entries of several sizes in one table: the data sizes of SpecPages.
PageDataSizes == {0, 4, 11}

\* The insertion orders SpecPages seeds its tree with.
PageSeedOrders ==
    { << 1, 2, 3, 4, 5, 6, 7, 9, 11, 12 >>,
      << 12, 11, 9, 7, 6, 5, 4, 3, 2, 1 >>,
      << 6, 2, 9, 4, 11, 1, 7, 3, 12, 5 >> }

PageSeedLengths == {0, 2, 6, 10}

PageSeeds == { SubSeq(o, 1, n) : o \in PageSeedOrders, n \in PageSeedLengths }

\* As Init, with the entries of a seed all of one of the PageDataSizes.
InitPages ==
    /\ \E type \in {PGTYPE_TABLE_LEAF, PGTYPE_INDEX_LEAF}, seed \in PageSeeds,
          size \in PageDataSizes :
          LET seeded == SeedPages(<< InitEmptyNode(1, PGTYPE_TABLE_LEAF),
                                     InitEmptyNode(2, type) >>,
                                  2, IsIndex(type), size, seed)
          IN
          /\ seeded.rc = CHIDB_OK
          /\ pages = seeded.pages
          /\ given = { EntryGiven(IsIndex(type), seed[i], 0, size) :
                          i \in 1..Len(seed) }
    /\ header = WriteFileHeader(Fill(100, 0), PageSize)
    /\ root = 2
    /\ cursor = ClosedCursor
    /\ last = Call("open", 0, CHIDB_OK, 0, << >>)
    /\ ncalls = 0
    /\ trail = NoTrail
    /\ handles = NoHandles

\* The page insertNonFull is called on after the split the file is in the
\* state after: the parent of the split, the root after a root split.
ResumePage == IF last.data[1] = 0 THEN root ELSE last.data[1]

\* One chidb_Btree_split call of a chidb_Btree_insertInTable or
\* chidb_Btree_insertInIndex of key k: the first of the insert when no insert
\* is under way, the next of the insert under way otherwise.  last.data is
\* << npage_parent, npage_child, parent_ncell, npage_child2 >> of the call.
Split(k, size) ==
    /\ Running /\ ~cursor.open
    /\ last.op \in {"open", "split"}
    /\ last.op = "split" => (k = last.key /\ size = last.size)
    /\ \A btn \in TreeNodes(pages) : Overlap(btn) = 0
    /\ LET r == IF last.op = "open"
                THEN chidb_Btree_insert(pages, root,
                                        EntryCell(TreeIsIndex, k, 1, size))
                ELSE chidb_Btree_insertNonFull(pages, ResumePage,
                                               EntryCell(TreeIsIndex, k, 1, size),
                                               MaxFuel)
       IN  /\ r.splits # << >>
           /\ pages' = r.splits[1].pages
           /\ last' = Call("split", k, r.splits[1].rc, size,
                           << r.splits[1].npage_parent, r.splits[1].npage_child,
                              r.splits[1].parent_ncell, r.splits[1].npage_child2 >>)
    /\ UNCHANGED << header, root, cursor, given, ncalls, trail, handles >>

\* The seeds of SpecSplit: every prefix of the orders of SpecPages.
SplitSeeds == { SubSeq(o, 1, n) : o \in PageSeedOrders, n \in 0..10 }

\* As InitPages, on the seeds of SpecSplit.
InitSplit ==
    /\ \E type \in {PGTYPE_TABLE_LEAF, PGTYPE_INDEX_LEAF}, seed \in SplitSeeds,
          size \in PageDataSizes :
          LET seeded == SeedPages(<< InitEmptyNode(1, PGTYPE_TABLE_LEAF),
                                     InitEmptyNode(2, type) >>,
                                  2, IsIndex(type), size, seed)
          IN
          /\ seeded.rc = CHIDB_OK
          /\ pages = seeded.pages
          /\ given = { EntryGiven(IsIndex(type), seed[i], 0, size) :
                          i \in 1..Len(seed) }
    /\ header = WriteFileHeader(Fill(100, 0), PageSize)
    /\ root = 2
    /\ cursor = ClosedCursor
    /\ last = Call("open", 0, CHIDB_OK, 0, << >>)
    /\ ncalls = 0
    /\ trail = NoTrail
    /\ handles = NoHandles

\* The splits of the inserts into seeded trees, one at a time.
NextSplit ==
    \E k \in Keys, size \in PageDataSizes : Split(k, size)

SpecSplit == InitSplit /\ [][NextSplit]_vars

\* A table key whose varint has five bytes.
WideKey == 268435456

CellKeys == {1, 2, WideKey}

\* The cells a caller builds for a node of `type`.
CellInputs(type) ==
    CASE type = PGTYPE_TABLE_LEAF ->
            { Cell(type, k, 0, 0, size, [i \in 1..size |-> 7]) :
                k \in CellKeys, size \in PageDataSizes }
      [] type = PGTYPE_TABLE_INTERNAL ->
            { Cell(type, k, 3, 0, 0, 0) : k \in CellKeys }
      [] type = PGTYPE_INDEX_LEAF ->
            { Cell(type, k, 0, 300, 0, 0) : k \in CellKeys }
      [] type = PGTYPE_INDEX_INTERNAL ->
            { Cell(type, k, 3, 300, 0, 0) : k \in CellKeys }

\* chidb_Btree_insertCell(btn, ncell, cell) on the node of page `root`, for
\* a cell that fits and 0 <= ncell <= n_cells, followed by
\* chidb_Btree_writeNode.  A write behind the page buffer goes unnoticed or
\* ends the process.
InsertCellCall(ncell, cell) ==
    /\ Running /\ ~cursor.open
    /\ ncell <= pages[root].n_cells
    /\ ~chidb_Btree_nodeIsFull(pages[root], cell)
    /\ pages' = WriteNode(pages, chidb_Btree_insertCell(pages[root], ncell, cell))
    /\ \E rc \in (IF WritesPastPage(pages[root], ncell, cell)
                   THEN {CHIDB_OK, CRASHED} ELSE {InsertCellRc(pages[root], ncell)}) :
           last' = Call("insertCell", cell.key, rc, ncell, << cell >>)
    /\ UNCHANGED << header, root, cursor, given, ncalls, trail, handles >>

\* Page 2 holds an empty node of one of the four types.
InitInsertCell ==
    /\ \E type \in {PGTYPE_TABLE_LEAF, PGTYPE_TABLE_INTERNAL,
                     PGTYPE_INDEX_LEAF, PGTYPE_INDEX_INTERNAL} :
           pages = << InitEmptyNode(1, PGTYPE_TABLE_LEAF), InitEmptyNode(2, type) >>
    /\ header = WriteFileHeader(Fill(100, 0), PageSize)
    /\ root = 2
    /\ cursor = ClosedCursor
    /\ last = Call("open", 0, CHIDB_OK, 0, << >>)
    /\ given = {}
    /\ ncalls = 0
    /\ trail = NoTrail
    /\ handles = NoHandles

NextInsertCell ==
    \E ncell \in 0..4, cell \in CellInputs(pages[root].type) :
        InsertCellCall(ncell, cell)

SpecInsertCell == InitInsertCell /\ [][NextInsertCell]_vars

\* The page number behind the last page of the file.
LostPage(pgs) == Len(pgs) + 1

\* A child pointer as chidb_Btree_getNodeByPage serves it: for a page the
\* file does not have, chidb_Pager_readPage fails and *btn is left pointing
\* to a BTreeNode whose fields were never set; this node is shown as a leaf
\* without cells on LostPage.
Served(pgs, npage) == IF ValidPage(pgs, npage) THEN npage ELSE LostPage(pgs)

\* The file as a cursor's loads see it.
ForCursor(pgs) ==
    [n \in 1..LostPage(pgs) |->
        IF n = LostPage(pgs) THEN InitEmptyNode(n, PGTYPE_TABLE_LEAF)
        ELSE IF ~IsInternal(pgs[n].type) THEN pgs[n]
        ELSE [pgs[n] EXCEPT
                !.right_page = Served(pgs, pgs[n].right_page),
                !.cells = [i \in 1..Len(pgs[n].cells) |->
                              [pgs[n].cells[i] EXCEPT
                                  !.child_page = Served(pgs, pgs[n].cells[i].child_page)]]]]

\* The cursor's current node is what a failed load left.
Lost(cur) == chidb_dbm_cursor_getCurrentNode(cur).npage = LostPage(pages)

\* What a cursor call returns: rewind, next and prev hand the code of a
\* failed load on; seek_partial does not look at it and goes on with the
\* node the load left, whose fields hold anything.
LoadOutcomes(op, r) ==
    IF ~Lost(r.cur) THEN { r.rc }
    ELSE IF op \in {"rewind", "next", "prev"} THEN { CHIDB_EPAGENO }
    ELSE { CRASHED, r.rc }

\* chidb_dbm_cursor_init on a table tree a sequence of inserts has left,
\* the memory of cells[0] holding 0.
InitOnFile ==
    /\ Running /\ ~cursor.open
    /\ cursor' = chidb_dbm_cursor_init(ForCursor(pages), root, 0)
    /\ last' = Call("init", 0, CHIDB_OK, 0, << >>)
    /\ trail' = NoTrail
    /\ UNCHANGED << header, pages, root, given, ncalls, handles >>

\* The cursor call `op` with key k on such a tree; after a failed load, and
\* with a cell number beyond n_cells, the caller does nothing with the cursor
\* but free it.
CallOnFile(op, k) ==
    /\ Running /\ cursor.open /\ ~Lost(cursor)
    /\ chidb_dbm_cursor_getCurrentCellNo(cursor)
          <= chidb_dbm_cursor_getCurrentNode(cursor).n_cells
    /\ \A btn \in TreeNodes(pages) : Exact(btn)
    /\ LET r == CASE op = "rewind" -> chidb_dbm_cursor_rewind(cursor, ForCursor(pages))
                  [] op = "next"   -> chidb_dbm_cursor_next(cursor, ForCursor(pages))
                  [] op = "prev"   -> chidb_dbm_cursor_prev(cursor, ForCursor(pages))
                  [] op = "seek"   -> chidb_dbm_cursor_seek(cursor, k, ForCursor(pages))
                  [] op = "seekge" -> chidb_dbm_cursor_seekge(cursor, k, ForCursor(pages))
                  [] op = "seekgt" -> chidb_dbm_cursor_seekgt(cursor, k, ForCursor(pages))
       IN  /\ cursor' = r.cur
           /\ \E rc \in LoadOutcomes(op, r) : last' = Call(op, k, rc, 0, << >>)
    /\ trail' = NoTrail
    /\ UNCHANGED << header, pages, root, given, ncalls, handles >>

\* The seeded table trees of SpecPages.
InitOnFiles ==
    /\ \E seed \in PageSeeds, size \in PageDataSizes :
          LET seeded == SeedPages(<< InitEmptyNode(1, PGTYPE_TABLE_LEAF),
                                     InitEmptyNode(2, PGTYPE_TABLE_LEAF) >>,
                                  2, FALSE, size, seed)
          IN
          /\ seeded.rc = CHIDB_OK
          /\ pages = seeded.pages
          /\ given = { EntryGiven(FALSE, seed[i], 0, size) : i \in 1..Len(seed) }
    /\ header = WriteFileHeader(Fill(100, 0), PageSize)
    /\ root = 2
    /\ cursor = ClosedCursor
    /\ last = Call("open", 0, CHIDB_OK, 0, << >>)
    /\ ncalls = 0
    /\ trail = NoTrail
    /\ handles = NoHandles

\* The keys the cursor is sent to: below, among and above the seeded keys.
OnFileKeys == {1, 6, 12}

\* An insert of any size, then a cursor on the tree it left.
NextOnFiles ==
    \/ \E k \in Keys, size \in PageDataSizes : Insert(k, 1, size)
    \/ InitOnFile
    \/ CursorFree
    \/ \E op \in {"rewind", "next", "prev"} : CallOnFile(op, 0)
    \/ \E op \in {"seek", "seekge", "seekgt"}, k \in OnFileKeys : CallOnFile(op, k)

SpecOnFiles == InitOnFiles /\ [][NextOnFiles]_vars

\* Inserts into a tree whose entries differ in size.
NextPages ==
    \E k \in Keys, size \in PageDataSizes : Insert(k, 1, size)

SpecPages == InitPages /\ [][NextPages]_vars

(* -------------------------- cursor on a tall tree ---------------------- *)

\* Index trees of five and of six levels, table trees of four and of five:
\* `n` ascending keys inserted into an empty tree of the type.
TallSeeds ==
    { << PGTYPE_INDEX_LEAF, 30 >>, << PGTYPE_INDEX_LEAF, 40 >>,
      << PGTYPE_TABLE_LEAF, 30 >>, << PGTYPE_TABLE_LEAF, 50 >> }

InitTall ==
    /\ \E seed \in TallSeeds :
          LET seeded == SeedPages(<< InitEmptyNode(1, PGTYPE_TABLE_LEAF),
                                     InitEmptyNode(2, seed[1]) >>,
                                  2, IsIndex(seed[1]), 0,
                                  [i \in 1..seed[2] |-> i])
          IN
          /\ seeded.rc = CHIDB_OK
          /\ pages = seeded.pages
          /\ given = { EntryGiven(IsIndex(seed[1]), i, 0, 0) : i \in 1..seed[2] }
    /\ header = WriteFileHeader(Fill(100, 0), PageSize)
    /\ root = 2
    /\ cursor = ClosedCursor
    /\ last = Call("open", 0, CHIDB_OK, 0, << >>)
    /\ ncalls = 0
    /\ trail = NoTrail
    /\ handles = NoHandles

\* The cursor together with the memory that lies behind its two arrays of
\* DEFAULT_CURSOR_MAX_DEPTH elements: element DEFAULT_CURSOR_MAX_DEPTH of
\* cells and of nodes is the place goDownCurrentCell writes at when depth
\* becomes DEFAULT_CURSOR_MAX_DEPTH, which no check prevents.
WithMemoryBehind(cur) ==
    [cur EXCEPT !.cells = cur.cells \o << 0 >>,
                !.nodes = cur.nodes \o << NoNode >>]

\* chidb_dbm_cursor_init on a tall tree, the memory of cells[0] holding 0.
InitOnTall ==
    /\ Running /\ ~cursor.open
    /\ cursor' = WithMemoryBehind(chidb_dbm_cursor_init(pages, root, 0))
    /\ last' = Call("init", 0, CHIDB_OK, 0, << >>)
    /\ trail' = NoTrail
    /\ UNCHANGED << header, pages, root, given, ncalls, handles >>

\* The cursor wrote behind its arrays.
PastCapacity(cur) == cur.depth >= DEFAULT_CURSOR_MAX_DEPTH

\* A write behind a heap block: the process is stopped, or it goes on with
\* the written values in the memory behind the block.
OverflowOutcomes(r) ==
    IF PastCapacity(r.cur) THEN { CRASHED, r.rc } ELSE { r.rc }

\* The cursor call `op` with key k on a tall tree; after a write behind the
\* arrays the caller does nothing with the cursor but free it.
CallOnTall(op, k) ==
    /\ Running /\ cursor.open /\ ~PastCapacity(cursor)
    /\ LET r == CASE op = "rewind" -> chidb_dbm_cursor_rewind(cursor, pages)
                  [] op = "next"   -> chidb_dbm_cursor_next(cursor, pages)
                  [] op = "prev"   -> chidb_dbm_cursor_prev(cursor, pages)
                  [] op = "seek"   -> chidb_dbm_cursor_seek(cursor, k, pages)
                  [] op = "seekge" -> chidb_dbm_cursor_seekge(cursor, k, pages)
                  [] op = "seekgt" -> chidb_dbm_cursor_seekgt(cursor, k, pages)
       IN  /\ cursor' = r.cur
           /\ \E rc \in OverflowOutcomes(r) : last' = Call(op, k, rc, 0, << >>)
    /\ trail' = NoTrail
    /\ UNCHANGED << header, pages, root, given, ncalls, handles >>

\* The keys the cursor is sent to on a tall tree.
TallKeys == {1, 17, 30}

NextTall ==
    \/ InitOnTall
    \/ CursorFree
    \/ \E op \in {"rewind", "next", "prev"} : CallOnTall(op, 0)
    \/ \E op \in {"seek", "seekge", "seekgt"}, k \in TallKeys : CallOnTall(op, k)

SpecTall == InitTall /\ [][NextTall]_vars

(* ------------------------- two trees in one file ----------------------- *)

\* The root pages of the two trees of the file, made by two calls of
\* chidb_Btree_newNode after chidb_Btree_open made page 1.
TreeRoots == {2, 3}

\* chidb_Btree_insert called once per element << nroot, key >> of a sequence,
\* on the tree at nroot; isIndex[nroot] tells the type of that tree.
RECURSIVE SeedTrees(_, _, _, _)
SeedTrees(pgs, isIndex, size, seq) ==
    IF seq = << >> THEN InsertResult(pgs, CHIDB_OK)
    ELSE LET r == chidb_Btree_insert(pgs, Head(seq)[1],
                                     EntryCell(isIndex[Head(seq)[1]],
                                               Head(seq)[2], 0, size))
         IN  IF r.rc # CHIDB_OK THEN r
             ELSE SeedTrees(r.pages, isIndex, size, Tail(seq))

\* Insertion orders the two trees are seeded with: the keys of an order go
\* to the tree at page 3 and to the tree at page 2 in turn.
TreeSeeds ==
    { [i \in 1..n |-> << 2 + (i % 2), o[(i + 1) \div 2] >>] :
         o \in { << 1, 2, 3, 4, 5, 6, 7, 9 >>,
                 << 6, 2, 9, 4, 11, 1, 7, 3 >> },
         n \in {0, 7, 12, 16} }

\* The keys inserted into either tree.
TreeKeys == {1, 5, 10}

\* The entries of a seed inserted into the two trees.
InitTrees ==
    /\ \E typeA \in {PGTYPE_TABLE_LEAF, PGTYPE_INDEX_LEAF},
          typeB \in {PGTYPE_TABLE_LEAF, PGTYPE_INDEX_LEAF},
          seed \in TreeSeeds, size \in {0, 4} :
          LET seeded == SeedTrees(<< InitEmptyNode(1, PGTYPE_TABLE_LEAF),
                                     InitEmptyNode(2, typeA),
                                     InitEmptyNode(3, typeB) >>,
                                  2 :> IsIndex(typeA) @@ 3 :> IsIndex(typeB),
                                  size, seed)
          IN
          /\ seeded.rc = CHIDB_OK
          /\ pages = seeded.pages
    /\ given = {}
    /\ header = WriteFileHeader(Fill(100, 0), PageSize)
    /\ root = 2
    /\ cursor = ClosedCursor
    /\ last = Call("open", 0, CHIDB_OK, 0, << >>)
    /\ ncalls = 0
    /\ trail = NoTrail
    /\ handles = NoHandles

\* chidb_Btree_insertInTable(bt, nroot, k, data, size) or
\* chidb_Btree_insertInIndex(bt, nroot, k, keyPk) on the tree at nroot.
InsertInto(nroot, k, size) ==
    /\ Running /\ ~cursor.open /\ ncalls < MaxInserts
    /\ \A r \in TreeRoots : \A p \in TreePages(pages, r) : Overlap(pages[p]) = 0
    /\ LET isIndex == IsIndex(pages[nroot].type)
           e == EntryGiven(isIndex, k, 1, size)
           r == IF isIndex
                THEN chidb_Btree_insertInIndex(pages, nroot, k, IndexPk(k, 1))
                ELSE chidb_Btree_insertInTable(pages, nroot, k,
                                               TableData(k, 1, size), size)
       IN  /\ pages' = IF r.rc = NO_RETURN THEN pages ELSE r.pages
           /\ last' = Call("insert", k, r.rc, e.size, e.data)
           /\ handles' = r.h
    /\ root' = nroot
    /\ ncalls' = ncalls + 1
    /\ trail' = NoTrail
    /\ UNCHANGED << header, cursor, given >>

NextTrees ==
    \E nroot \in TreeRoots, k \in TreeKeys, size \in PageDataSizes :
        InsertInto(nroot, k, size)

SpecTrees == InitTrees /\ [][NextTrees]_vars

(* ------------------------------ scan loop ------------------------------ *)

\* The addresses of the program "Rewind c, end; body; Next c, body; end:"
\* that runs once chidb_dbm_op_OpenRead has opened cursor c.
ScanLoop == [rewind |-> 0, body |-> 1, next |-> 2, end |-> 3]

\* stmt->pc when a handler runs: the machine has stepped to the instruction
\* after the one it hands to chidb_dbm_op_handle.
Fetched(pc) == pc + 1

\* While the program runs, trail.back is the address of the instruction to
\* run next and trail.keys are the keys the body has read.
AtAddress(a) == trail.mode = "program" /\ trail.back = a

\* chidb_dbm_op_OpenRead(stmt, op): openCursor, then on to Rewind.
OpOpenRead(v) ==
    /\ Running /\ ~cursor.open
    /\ cursor' = chidb_dbm_cursor_init(pages, root, v)
    /\ last' = Call("OpenRead", 0, CHIDB_OK, 0, << >>)
    /\ trail' = [mode |-> "program", keys |-> << >>, back |-> ScanLoop.rewind]
    /\ UNCHANGED << header, pages, root, given, ncalls, handles >>

\* chidb_dbm_op_Rewind(stmt, op) with p2 = end
OpRewind ==
    /\ Running /\ cursor.open /\ AtAddress(ScanLoop.rewind)
    /\ IF cursor.nodes[1].n_cells = 0
       THEN /\ cursor' = cursor
            /\ last' = Call("Rewind", 0, CHIDB_OK, 0, << >>)
            /\ trail' = [trail EXCEPT !.back = ScanLoop.end]
       ELSE LET r == chidb_dbm_cursor_rewind(cursor, pages)
            IN  /\ cursor' = r.cur
                /\ last' = Call("Rewind", 0, r.rc, 0, << >>)
                /\ trail' = [trail EXCEPT !.back = Fetched(trail.back)]
    /\ UNCHANGED << header, pages, root, given, ncalls, handles >>

\* The instructions of the body: they read the cursor's entry and do not
\* move the cursor.
OpBody ==
    /\ Running /\ cursor.open /\ AtAddress(ScanLoop.body)
    /\ last' = Call("body", CurKey(cursor), CHIDB_OK, 0, << >>)
    /\ trail' = [trail EXCEPT !.keys = Append(trail.keys, CurKey(cursor)),
                              !.back = Fetched(trail.back)]
    /\ UNCHANGED << header, pages, root, cursor, given, ncalls, handles >>

\* chidb_dbm_op_Next: "only jump if we DID move to a next".
NextJumps_Always(rc) == rc \in {CHIDB_OK, CHIDB_CURSOR_ENONEXT}

NextJumps(rc) == rc = CHIDB_OK

\* What chidb_dbm_op_Next returns for the code rc of chidb_dbm_cursor_next.
NextReturns(rc) ==
    IF rc # CHIDB_OK /\ rc # CHIDB_CURSOR_ENONEXT THEN rc ELSE CHIDB_OK

\* chidb_dbm_op_Next(stmt, op) with p2 = body
OpNext ==
    /\ Running /\ cursor.open /\ AtAddress(ScanLoop.next)
    /\ LET r == chidb_dbm_cursor_next(cursor, pages)
       IN  /\ cursor' = r.cur
           /\ last' = Call("Next", 0, NextReturns(r.rc), 0, << >>)
           /\ trail' = [trail EXCEPT !.back = IF NextJumps(r.rc)
                                              THEN ScanLoop.body
                                              ELSE Fetched(trail.back)]
    /\ UNCHANGED << header, pages, root, given, ncalls, handles >>

\* chidb_dbm_op_Close(stmt, op) at the end of the program
OpClose ==
    /\ Running /\ cursor.open /\ AtAddress(ScanLoop.end)
    /\ cursor' = ClosedCursor
    /\ last' = Call("Close", 0, CHIDB_OK, 0, << >>)
    /\ trail' = NoTrail
    /\ UNCHANGED << header, pages, root, given, ncalls, handles >>

\* Inserts, and runs of the program on the tree they made.
NextLoop ==
    \/ \E k \in Keys, size \in DataSizes : Insert(k, 1, size)
    \/ \E v \in UninitCellNos : OpOpenRead(v)
    \/ OpRewind
    \/ OpBody
    \/ OpNext
    \/ OpClose

SpecLoop == Init /\ [][NextLoop]_vars

(* ------------------------ a file opened again --------------------------- *)

\* chidb_Btree_open of a file that an earlier chidb_Btree_open has returned
\* from; last.key is the page size the pager is left with, last.size the
\* number of header bytes the file had.
Reopen ==
    /\ last.op \in {"open", "reopen"}
    /\ ncalls < MaxInserts + 1
    /\ \E fresh \in FreshPages :
          LET r == chidb_Btree_open(header, pages, fresh)
          IN  /\ header' = r.header
              /\ pages' = r.pages
              /\ last' = Call("reopen", r.page_size, r.rc, Len(header), << >>)
    /\ ncalls' = ncalls + 1
    /\ UNCHANGED << root, cursor, given, trail, handles >>

NextReopen ==
    \/ Open
    \/ Reopen

SpecReopen == InitOpen /\ [][NextReopen]_vars

(* --------------------------- page sizes -------------------------------- *)

\* Page sizes a file is created with: the acceptable ones run from 512 to
\* 65536.
PageSizes == {512, 513, 1024, 2048, 4096, 8192, 16384, 32768, 65535, 65536}

NodeTypes ==
    {PGTYPE_TABLE_LEAF, PGTYPE_TABLE_INTERNAL, PGTYPE_INDEX_LEAF, PGTYPE_INDEX_INTERNAL}

\* "uint16_t pageSize = header[16]*256 + header[17]"
StoredPageSize(h) == U16(h[17] * 256 + h[18])

\* An empty file.
InitSizes ==
    /\ header = << >>
    /\ pages = << >>
    /\ root = 1
    /\ cursor = ClosedCursor
    /\ last = Call("start", 0, CHIDB_OK, 0, << >>)
    /\ given = {}
    /\ ncalls = 0
    /\ trail = NoTrail
    /\ handles = NoHandles

\* chidb_Btree_open of the empty file in a build whose DEFAULT_PAGE_SIZE is
\* page_size.  last.key is the page size of the build, last.size the one
\* the pager is left with.
CreateSized(page_size) ==
    /\ last.op = "start"
    /\ \E fresh \in FreshPages :
          header' = WriteFileHeader(fresh, page_size)
    /\ pages' = << InitEmptyNodeOfSize(1, PGTYPE_TABLE_LEAF, page_size) >>
    /\ last' = Call("create", page_size, CHIDB_OK, U16(page_size), << >>)
    /\ UNCHANGED << root, cursor, given, ncalls, trail, handles >>

\* chidb_Btree_open of the file created: the pager gets the page size the
\* header stores.
OpenSized ==
    /\ last.op = "create"
    /\ last' = Call("open", last.key, ValidateHeader(header),
                    StoredPageSize(header), << >>)
    /\ UNCHANGED << header, pages, root, cursor, given, ncalls, trail, handles >>

\* chidb_Btree_newNode(bt, &npage, type) on the file opened.
NewNodeSized(type) ==
    /\ last.op \in {"open", "newNode"}
    /\ last.rc = CHIDB_OK
    /\ Len(pages) < 3
    /\ pages' = Append(pages, InitEmptyNodeOfSize(Len(pages) + 1, type, last.size))
    /\ last' = Call("newNode", last.key, CHIDB_OK, last.size, << >>)
    /\ UNCHANGED << header, root, cursor, given, ncalls, trail, handles >>

NextSizes ==
    \/ \E page_size \in PageSizes : CreateSized(page_size)
    \/ OpenSized
    \/ \E type \in NodeTypes : NewNodeSized(type)

SpecSizes == InitSizes /\ [][NextSizes]_vars

(* ------------------- inserts under an open cursor ---------------------- *)

\* chidb_Btree_insertInTable / chidb_Btree_insertInIndex between two calls of
\* a cursor that was rewound: the cursor keeps the nodes it loaded, the file
\* changes beneath them.
InsertUnderCursor(k, size) ==
    /\ Running /\ cursor.open /\ trail.mode = "scan" /\ ncalls < MaxInserts
    /\ \A btn \in TreeNodes(pages) : Overlap(btn) = 0
    /\ LET e == EntryGiven(TreeIsIndex, k, 1, size)
           r == IF TreeIsIndex
                THEN chidb_Btree_insertInIndex(pages, root, k, IndexPk(k, 1))
                ELSE chidb_Btree_insertInTable(pages, root, k,
                                               TableData(k, 1, size), size)
       IN  /\ r.rc # NO_RETURN
           /\ pages' = r.pages
           /\ last' = Call("insert", k, r.rc, e.size, e.data)
           /\ given' = IF r.rc = CHIDB_OK THEN given \cup {e} ELSE given
           /\ handles' = r.h
    /\ ncalls' = ncalls + 1
    /\ UNCHANGED << header, root, cursor, trail >>

\* A cursor that is rewound before the first insert and stepped forward
\* while entries are inserted.
NextUnder ==
    \/ \E v \in UninitCellNos : CursorInit(v)
    \/ (ncalls = 0 /\ Rewind)
    \/ Next_
    \/ \E k \in Keys, size \in DataSizes : InsertUnderCursor(k, size)

SpecUnder == Init /\ [][NextUnder]_vars

(* ------------------------ register comparison -------------------------- *)

\* The largest value of an int32_t register; Int32Min is the smallest.
Int32Max == 2147483647

Int32Min == (0 - Int32Max) - 1

\* Values the Integer instruction loads into a register.
RegisterValues ==
    {Int32Min, Int32Min + 1, 0 - 2, 0 - 1, 0, 1, 2, Int32Max - 1, Int32Max}

\* a - b is above Int32Max / below Int32Min.
OverflowsUp(a, b) == a >= 0 /\ b < 0 /\ a > Int32Max + b

OverflowsDown(a, b) == a < 0 /\ b > 0 /\ a < Int32Min + b

\* The values "a - b" of two int operands may yield: the difference when it
\* fits; when it does not, the behaviour is undefined, and a build yields
\* either the difference reduced modulo 2^32 or, where the compiler turned
\* the caller's test of the sign into a comparison of a and b, a value of
\* the sign of the true difference.
Sub32(a, b) ==
    IF OverflowsUp(a, b)
    THEN { ((a - Int32Max) - 1) + (Int32Min - b), Int32Max }
    ELSE IF OverflowsDown(a, b)
    THEN { ((a - Int32Min) + (Int32Max - b)) + 1, Int32Min }
    ELSE { a - b }

\* chidb_dbm_cmp for two REG_INT32 registers: r1 is register p1, r2 is
\* register p3.
chidb_dbm_cmp(r1, r2) == Sub32(r2, r1)

\* The test on which chidb_dbm_op_Eq .. chidb_dbm_op_Ge set stmt->pc = j.
Compares(opc, cmp) ==
    CASE opc = "Eq" -> cmp = 0
      [] opc = "Ne" -> cmp # 0
      [] opc = "Lt" -> cmp < 0
      [] opc = "Le" -> cmp <= 0
      [] opc = "Gt" -> cmp > 0
      [] opc = "Ge" -> cmp >= 0

CompareOps == {"Eq", "Ne", "Lt", "Le", "Gt", "Ge"}

\* The machine before the program loads its registers.
InitCmp ==
    /\ header = << >>
    /\ pages = << >>
    /\ root = 1
    /\ cursor = ClosedCursor
    /\ last = Call("start", 0, CHIDB_OK, 0, << >>)
    /\ given = {}
    /\ ncalls = 0
    /\ trail = NoTrail
    /\ handles = NoHandles

\* Two Integer instructions: register p1 of the comparison gets a, register
\* p3 gets b.  last.data holds the two registers.
OpInteger(a, b) ==
    /\ last.op = "start"
    /\ last' = Call("Integer", 0, CHIDB_OK, 0, << a, b >>)
    /\ UNCHANGED << header, pages, root, cursor, given, ncalls, trail, handles >>

\* chidb_dbm_op_Eq .. chidb_dbm_op_Ge on the two registers; last.size is the
\* value chidb_dbm_cmp returned, last.key is 1 when the instruction set
\* stmt->pc = j and 0 when it did not.
OpCompare(opc) ==
    /\ last.op = "Integer"
    /\ \E cmp \in chidb_dbm_cmp(last.data[1], last.data[2]) :
          last' = Call(opc, IF Compares(opc, cmp) THEN 1 ELSE 0, CHIDB_OK,
                       cmp, last.data)
    /\ UNCHANGED << header, pages, root, cursor, given, ncalls, trail, handles >>

NextCmp ==
    \/ \E a \in RegisterValues, b \in RegisterValues : OpInteger(a, b)
    \/ \E opc \in CompareOps : OpCompare(opc)

SpecCmp == InitCmp /\ [][NextCmp]_vars

(* ------------------------ vocabulary of the claims --------------------- *)

\* The keys of the entries stored under page npage: the cells of its leaves
\* and, in an index tree, the cells of its internal nodes.
RECURSIVE SubtreeKeys(_, _)
SubtreeKeys(pgs, npage) ==
    LET btn == pgs[npage]
        own == { btn.cells[i].key : i \in 1..btn.n_cells }
    IN  IF ~ValidPage(pgs, npage) THEN {}
        ELSE IF IsLeaf(btn.type) THEN own
        ELSE UNION { SubtreeKeys(pgs, btn.cells[i].child_page) : i \in 1..btn.n_cells }
             \cup SubtreeKeys(pgs, btn.right_page)
             \cup (IF btn.type = PGTYPE_INDEX_INTERNAL THEN own ELSE {})

\* The keys stored in the tree.
StoredKeys == SubtreeKeys(pages, root)

\* The keys whose insert returned CHIDB_OK.
GivenKeys == { e.key : e \in given }

Min(S) == CHOOSE x \in S : \A y \in S : x <= y

Max(S) == CHOOSE x \in S : \A y \in S : y <= x

\* The elements of a finite set of integers in ascending order.
RECURSIVE Sorted(_)
Sorted(S) == IF S = {} THEN << >> ELSE << Min(S) >> \o Sorted(S \ {Min(S)})

IsPrefix(s, t) == Len(s) <= Len(t) /\ s = SubSeq(t, 1, Len(s))

\* The step is an insert call.
InsertStep == ncalls' # ncalls

(* ------------------------------ claims --------------------------------- *)

\* The trees of SpecBtree, SpecScan and SpecSeek hold at most MaxInserts
\* entries more than the longest seed and have at most three levels, so a
\* cursor on them stays within depth 2.

\* C1: find(root, k) returns the payload (size and bytes) that was given to
\* the insert of k, for every insert of k that returned CHIDB_OK.
C1_FindReturnsGiven ==
    (last.op = "find" /\ last.key \in GivenKeys) =>
        /\ last.rc = CHIDB_OK
        /\ \A e \in given : e.key = last.key =>
                (last.size = e.size /\ last.data = e.data)

\* C3: an insert of a key that is present in the tree returns
\* CHIDB_EDUPLICATE.
C3_DuplicateCode ==
    [][ (InsertStep /\ last'.key \in StoredKeys) => last'.rc = CHIDB_EDUPLICATE ]_vars

\* C4: an insert of a key that is present in the tree leaves every page as
\* it was and allocates no page.
C4_DuplicateFrame ==
    [][ (InsertStep /\ last'.key \in StoredKeys) => pages' = pages ]_vars

\* C7: find returns CHIDB_ENOTFOUND for every key no insert of which
\* returned CHIDB_OK.
C7_FindAbsent ==
    (last.op = "find" /\ last.key \notin GivenKeys) => last.rc = CHIDB_ENOTFOUND

\* C7 witness: finds of absent keys below, between and above the keys of a
\* tree with internal nodes were answered.
C7_Witness ==
    /\ last.op = "find" /\ last.key \notin GivenKeys
    /\ IsInternal(pages[root].type)
    /\ last.key > Min(GivenKeys) /\ last.key < Max(GivenKeys)

\* The cursor's position is the entry with the largest key of the tree.
OnLastEntry ==
    /\ cursor.open /\ OnCell(cursor)
    /\ StoredKeys # {}
    /\ CurKey(cursor) = Max(StoredKeys)

\* C2: the keys visited by rewind and the nexts that follow it are the keys
\* stored in the tree in ascending order, each once: every visit extends a
\* prefix of that order, and NoNext is returned when all of it was visited.
C2_ScanAscending ==
    (trail.mode = "scan" /\ StoredKeys # {}) =>
        /\ IsPrefix(trail.keys, Sorted(StoredKeys))
        /\ (last.op = "next" /\ last.rc = CHIDB_CURSOR_ENONEXT)
               => trail.keys = Sorted(StoredKeys)

\* C5: seekge(k) returns OK on the smallest stored key >= k, and KeyNotFound
\* exactly when every stored key is < k.
C5_SeekGe ==
    last.op = "seekge" =>
        LET S == { x \in StoredKeys : x >= last.key }
        IN  IF S = {} THEN last.rc = CHIDB_CURSOR_EKEYNOTFOUND
            ELSE last.rc = CHIDB_OK /\ OnCell(cursor) /\ CurKey(cursor) = Min(S)

\* C5 witness: a seekge for an absent key ran off the end of an index leaf
\* and was answered with the INDEX_INTERNAL cell above it.
C5_Witness ==
    /\ last.op = "seekge" /\ last.rc = CHIDB_OK
    /\ last.key \notin StoredKeys
    /\ chidb_dbm_cursor_getCurrentNode(cursor).type = PGTYPE_INDEX_INTERNAL
    /\ CurKey(cursor) > last.key

\* C6: after rewind, n nexts and m <= n prevs the cursor is on the entry the
\* scan visited m steps earlier, so every prev lands on the predecessor and
\* n prevs lead back to the first entry.
C6_PrevUndoesNext ==
    trail.mode = "back" =>
        /\ last.rc = CHIDB_OK
        /\ OnCell(cursor)
        /\ CurKey(cursor) = trail.keys[Len(trail.keys) - trail.back]

\* C8: seek(k) returns OK exactly when k is stored, with the cursor on a cell
\* holding k that is a leaf cell or an INDEX_INTERNAL cell; otherwise it
\* returns KeyNotFound.
C8_Seek ==
    last.op = "seek" =>
        IF last.key \in StoredKeys
        THEN /\ last.rc = CHIDB_OK
             /\ OnCell(cursor) /\ CurKey(cursor) = last.key
             /\ chidb_dbm_cursor_getCurrentNode(cursor).type # PGTYPE_TABLE_INTERNAL
        ELSE last.rc = CHIDB_CURSOR_EKEYNOTFOUND

\* C8 witness: a seek found its key on an INDEX_INTERNAL cell.
C8_Witness ==
    /\ last.op = "seek" /\ last.rc = CHIDB_OK
    /\ chidb_dbm_cursor_getCurrentNode(cursor).type = PGTYPE_INDEX_INTERNAL
    /\ CurKey(cursor) = last.key

ExactFile(pgs) == \A btn \in TreeNodes(pgs) : Exact(btn)

\* The insert call of an Insert step, made again on the file it found.
LastInsert ==
    IF TreeIsIndex
    THEN chidb_Btree_insertInIndex(pages, root, last'.key, HostValue(last'.data))
    ELSE chidb_Btree_insertInTable(pages, root, last'.key, last'.data, last'.size)

\* The files an Insert step wrote: the file after each of its splits and the
\* file it left.
FilesOfLastInsert ==
    { f \in { LastInsert.splits[i].pages : i \in 1..Len(LastInsert.splits) } :
          ExactFile(f) }
        \cup { pages' }

\* The pages to the right of cell i (numbered from 1) of an internal node.
RightOf(btn, i) ==
    { btn.cells[j].child_page : j \in (i + 1)..btn.n_cells } \cup { btn.right_page }

StrictlyIncreasing(btn) ==
    \A i \in 1..(btn.n_cells - 1) : btn.cells[i].key < btn.cells[i + 1].key

\* C12: after every insert and after every split, the keys of every node of
\* the tree are strictly increasing from cell 0 to cell n_cells - 1.
C12_KeysStrictlyIncrease ==
    [][ InsertStep =>
          \A f \in FilesOfLastInsert :
              \A btn \in TreeNodes(f) : StrictlyIncreasing(btn) ]_vars

\* C13: after every insert, all its splits included, free_offset <=
\* cells_offset in every node of the tree: the cell offset array and the cell
\* area do not overlap.
C13_AreasApart ==
    \A btn \in TreeNodes(pages) : btn.free_offset <= btn.cells_offset

\* The size in bytes of a stored cell, by the kind of cell.
StoredSize(cell) ==
    CASE cell.type = PGTYPE_TABLE_INTERNAL -> 8
      [] cell.type = PGTYPE_TABLE_LEAF     -> 8 + cell.data_size
      [] cell.type = PGTYPE_INDEX_INTERNAL -> 16
      [] cell.type = PGTYPE_INDEX_LEAF     -> 12

RECURSIVE SumOfSizes(_)
SumOfSizes(cells) ==
    IF cells = << >> THEN 0 ELSE StoredSize(Head(cells)) + SumOfSizes(Tail(cells))

\* C14: in every node written by new_node, insert or split, cells_offset plus
\* the sizes of the node's cells is the page size.
C14_CellAreaAccounted ==
    [][ InsertStep =>
          \A f \in FilesOfLastInsert :
              \A btn \in TreeNodes(f) :
                  btn.cells_offset + SumOfSizes(btn.cells) = PageSize ]_vars

\* An insert split a node of a table whose entries differ in size.
C14_Witness ==
    /\ last.op = "insert" /\ last.rc = CHIDB_OK /\ ~TreeIsIndex
    /\ IsInternal(pages[root].type)
    /\ \E e \in given : e.size # last.size
    /\ \E btn \in TreeNodes(pages) :
           /\ IsLeaf(btn.type)
           /\ \E i, j \in 1..btn.n_cells :
                  btn.cells[i].data_size # btn.cells[j].data_size

SameFamily(t1, t2) == IsIndex(t1) <=> IsIndex(t2)

\* C15: after every insert, in every internal node of the tree each
\* child_page and the right_page is the number of an allocated page, is not
\* the node's own page, and holds a node of the node's tree family.
C15_ChildPointers ==
    \A btn \in TreeNodes(pages) :
        \A c \in Children(btn) :
            /\ ValidPage(pages, c)
            /\ c # btn.npage
            /\ SameFamily(pages[c].type, btn.type)

(* ------------------------------ the cursor ----------------------------- *)

CursorMoves == {"rewind", "next", "prev", "seek", "seekge", "seekgt"}

\* A cursor call other than init and free has returned.
Moved == cursor.open /\ last.op \in CursorMoves /\ Running

\* C16: after rewind, next, prev, seek, seekge or seekgt returns, the
\* cursor's current node is a leaf or an INDEX_INTERNAL node; on a table
\* tree it is a TABLE_LEAF.
C16_RestsOnEntryNode ==
    Moved =>
        LET type == chidb_dbm_cursor_getCurrentNode(cursor).type
        IN  /\ type \in {PGTYPE_TABLE_LEAF, PGTYPE_INDEX_LEAF, PGTYPE_INDEX_INTERNAL}
            /\ ~TreeIsIndex => type = PGTYPE_TABLE_LEAF

\* A rewind returned on a table tree of three levels.
C16_Witness ==
    /\ Moved /\ last.op = "rewind" /\ ~TreeIsIndex
    /\ cursor.depth = 2
    /\ cursor.nodes[1].type = PGTYPE_TABLE_INTERNAL
    /\ cursor.nodes[2].type = PGTYPE_TABLE_INTERNAL

\* The page that cell number ncell of an internal node designates: right_page
\* for n_cells, the cell's child_page below it, no page (0) above it.
Designated(btn, ncell) ==
    IF ncell <= btn.n_cells THEN ChildAt(btn, ncell) ELSE 0

\* C17: after every cursor call, the node at depth 0 is the root, and for
\* every d below the cursor's depth the node at depth d + 1 is the page that
\* the node and the cell number at depth d designate.
C17_PathIsConnected ==
    (cursor.open /\ Running) =>
        /\ cursor.nodes[1].npage = root
        /\ \A d \in 0..(cursor.depth - 1) :
               cursor.nodes[d + 2].npage
                   = Designated(cursor.nodes[d + 1], cursor.cells[d + 1])

\* A next or a prev moved the cursor from one leaf of a tree of three levels
\* to another, through a cell of the root other than the first.
C17_Witness ==
    /\ Moved /\ last.op \in {"next", "prev"} /\ last.rc = CHIDB_OK
    /\ cursor.depth = 2
    /\ cursor.cells[1] > 0
    /\ trail.mode \in {"scan", "back"}

\* C18: immediately after chidb_dbm_cursor_init the cursor's depth is 0, the
\* node at depth 0 is the root and the cell number at depth 0 is 0.
C18_InitialCursor ==
    (cursor.open /\ last.op = "init") =>
        /\ cursor.depth = 0
        /\ cursor.nodes[1] = GetNodeByPage(pages, root)
        /\ cursor.cells[1] = 0

(* ------------------------------- the file ------------------------------ *)

\* Byte i (counted from 0) of the header of a chidb file of 1024-byte pages.
RequiredByte(i) ==
    CASE i \in 0..15  -> SQLiteFormat3[i + 1]
      [] i = 16       -> 4
      [] i = 17       -> 0
      [] i \in 18..23 -> << 1, 1, 0, 64, 32, 32 >>[i - 17]
      [] i = 47       -> 1
      [] i = 50       -> 78
      [] i = 51       -> 32
      [] i = 59       -> 1
      [] OTHER        -> 0

\* C19: chidb_Btree_open of an empty file returns CHIDB_OK and leaves page 1
\* with the header of a chidb file of 1024-byte pages in its first 100 bytes
\* and, behind it, a TABLE_LEAF node with n_cells 0, free_offset 108 and
\* cells_offset 1024.
C19_OpenNewFile ==
    (last.op = "open" /\ last.size = 0) =>
        /\ last.rc = CHIDB_OK
        /\ Len(header) = 100
        /\ \A i \in 0..99 : header[i + 1] = RequiredByte(i)
        /\ Len(pages) = 1
        /\ pages[1].type = PGTYPE_TABLE_LEAF
        /\ pages[1].n_cells = 0
        /\ pages[1].free_offset = 108
        /\ pages[1].cells_offset = 1024

\* An empty file was opened and has a first page now.
C19_Witness ==
    /\ last.op = "open" /\ last.size = 0
    /\ Len(pages) = 1
    /\ header # << >>

\* The header has the required bytes everywhere but in the page size, which
\* chidb_Btree_open configures the pager with.
Conforms(h) == \A i \in (0..99) \ {16, 17} : h[i + 1] = RequiredByte(i)

\* C20: chidb_Btree_open of a file that is not empty returns
\* CHIDB_ECORRUPTHEADER when a byte of the header differs from the required
\* one, and CHIDB_OK only when none does.
C20_OpenValidates ==
    (last.op = "open" /\ last.size = 100) =>
        /\ ~Conforms(header) => last.rc = CHIDB_ECORRUPTHEADER
        /\ last.rc = CHIDB_OK => Conforms(header)

(* ------------------------------- find ---------------------------------- *)

\* C21: find on an index tree with a key that is present returns CHIDB_OK
\* and a 4-byte buffer holding the entry's keyPk most significant byte
\* first, whether the key is matched in an INDEX_LEAF cell or in an
\* INDEX_INTERNAL cell on the way down.
C21_FindPkBigEndian ==
    (last.op = "find" /\ TreeIsIndex /\ last.key \in StoredKeys) =>
        /\ last.rc = CHIDB_OK
        /\ last.size = 4
        /\ \E e \in given :
               e.key = last.key /\ last.data = Put4Byte(HostValue(e.data))

\* C22: when find or insert (with the insert_nonfull and split calls it
\* makes) returns, on success or on failure, free_node was called exactly
\* once for each load_node that succeeded and for no load_node that failed:
\* no node handle is held.
C22_HandlesPaired ==
    (last.op \in {"find", "insert"} /\ last.rc # NO_RETURN) =>
        /\ handles.freed_ok = handles.ok
        /\ handles.freed_failed = 0

(* ------------------------------- split --------------------------------- *)

\* The step is a chidb_Btree_split call, of the root or of another node.
RootSplitStep == last'.op = "split" /\ last'.data[1] = 0

ChildSplitStep == last'.op = "split" /\ last'.data[1] # 0

\* The number of the median cell of a node, counted from 1.
MedianOf(btn) == (btn.n_cells \div 2) + 1

\* C23: a root split keeps the root page number: afterwards the root page
\* holds an internal node of the tree's family with exactly one cell, whose
\* key is the median key and whose child_page is the first of exactly two
\* newly allocated pages; right_page is the second, which holds the cells
\* after the median.
C23_RootSplit ==
    [][ RootSplitStep =>
          /\ last'.data[2] = root
          /\ Len(pages') = Len(pages) + 2
          /\ pages'[root].type = (IF IsIndex(pages[root].type)
                                  THEN PGTYPE_INDEX_INTERNAL
                                  ELSE PGTYPE_TABLE_INTERNAL)
          /\ pages'[root].n_cells = 1
          /\ Len(pages'[root].cells) = 1
          /\ pages'[root].cells[1].key = pages[root].cells[MedianOf(pages[root])].key
          /\ pages'[root].cells[1].child_page = Len(pages) + 1
          /\ pages'[root].right_page = Len(pages) + 2
          /\ pages'[Len(pages) + 2].cells
                = SubSeq(pages[root].cells, MedianOf(pages[root]) + 1,
                         pages[root].n_cells) ]_vars

\* A root that was an internal node has been split: its two halves are
\* internal nodes on the two newest pages.
C23_Witness ==
    /\ last.op = "split" /\ last.data[1] = 0 /\ last.rc = CHIDB_OK
    /\ pages[root].n_cells = 1
    /\ IsInternal(pages[Len(pages)].type)
    /\ pages[Len(pages)].n_cells >= 1
    /\ pages[root].right_page = Len(pages)

\* The parent's cells are as before the split but for the cell added as
\* cell number ncell (counted from 0).
OthersKept(before, after, ncell) ==
    /\ after.n_cells = before.n_cells + 1
    /\ Len(after.cells) = Len(before.cells) + 1
    /\ \A j \in 1..ncell : after.cells[j] = before.cells[j]
    /\ \A j \in (ncell + 1)..before.n_cells : after.cells[j + 1] = before.cells[j]
    /\ after.right_page = before.right_page

\* C24: a split of a node other than the root allocates exactly one page,
\* the new left node; the right half keeps the page of the split child; the
\* parent gains exactly one cell, at index parent_ncell, with the median key
\* and child_page = the new left node; the parent's other cells keep their
\* order, and the pointer that led to the child (now at parent_ncell + 1, or
\* right_page) still leads to the child's page.
C24_ChildSplit ==
    [][ ChildSplitStep =>
          /\ Len(pages') = Len(pages) + 1
          /\ last'.data[4] = Len(pages) + 1
          /\ pages'[last'.data[2]].cells
                = SubSeq(pages[last'.data[2]].cells,
                         MedianOf(pages[last'.data[2]]) + 1,
                         pages[last'.data[2]].n_cells)
          /\ OthersKept(pages[last'.data[1]], pages'[last'.data[1]], last'.data[3])
          /\ pages'[last'.data[1]].cells[last'.data[3] + 1].key
                = pages[last'.data[2]].cells[MedianOf(pages[last'.data[2]])].key
          /\ pages'[last'.data[1]].cells[last'.data[3] + 1].child_page
                = last'.data[4]
          /\ ChildAt(pages[last'.data[1]], last'.data[3]) = last'.data[2]
          /\ ChildAt(pages'[last'.data[1]], last'.data[3] + 1) = last'.data[2] ]_vars

\* The cells of `child`, split around its median, are in `left` and `right`
\* and the median's entry is in the cell `up` of the parent, as the type of
\* the split node requires.
Conserved(child, left, right, up) ==
    /\ left.n_cells = Len(left.cells) /\ right.n_cells = Len(right.cells)
    /\ right.cells = SubSeq(child.cells, MedianOf(child) + 1, child.n_cells)
    /\ up.key = child.cells[MedianOf(child)].key
    /\ IF child.type = PGTYPE_TABLE_LEAF
       THEN left.cells = SubSeq(child.cells, 1, MedianOf(child))
       ELSE /\ left.cells = SubSeq(child.cells, 1, MedianOf(child) - 1)
            /\ \A i \in 1..left.n_cells :
                   left.cells[i].key # child.cells[MedianOf(child)].key
            /\ \A i \in 1..right.n_cells :
                   right.cells[i].key # child.cells[MedianOf(child)].key
    /\ IsIndex(child.type) => up.keyPk = child.cells[MedianOf(child)].keyPk
    /\ IsInternal(child.type) =>
           /\ left.right_page = child.cells[MedianOf(child)].child_page
           /\ right.right_page = child.right_page

CellInserted(before, after, i, c) ==
    /\ after.n_cells = before.n_cells + 1
    /\ after.free_offset = before.free_offset + 2
    /\ after.cells_offset = before.cells_offset - CellSize(before.type, c)
    /\ GetCell(after, i) = c
    /\ \A j \in 0..(before.n_cells - 1) :
           GetCell(after, IF j < i THEN j ELSE j + 1) = GetCell(before, j)
    /\ \A j \in 1..before.n_cells :
           /\ after.celloffset_array[IF j <= i THEN j ELSE j + 1]
                = before.celloffset_array[j]
           /\ after.cells_offset + CellSize(before.type, c)
                <= before.celloffset_array[j]
    /\ after.celloffset_array[i + 1] = after.cells_offset
    /\ after.free_offset <= after.cells_offset

\* C26: for a node in which the cell fits and any 0 <= i <= n_cells,
\* insertCell(node, i, c) returns and makes getCell(node, i) return c, leaves
\* the cells below i unchanged, moves each former cell j >= i to j + 1,
\* increases n_cells by 1 and free_offset by 2, decreases cells_offset by
\* the cell's size, and overwrites no byte of the cells the node held.
C26_InsertCell ==
    [][ last'.op = "insertCell" =>
          /\ last'.rc = CHIDB_OK
          /\ CellInserted(pages[root], pages'[root], last'.size, last'.data[1]) ]_vars

(* ------------------------- cursor on a table tree ----------------------- *)

\* C27: on a table tree no next and no prev is entered, and no next is left,
\* while the cursor's current node is a TABLE_INTERNAL node: the assertions
\* of next and prev hold after every sequence of cursor calls that starts
\* with init, a next issued directly after init included.
C27_NeverOnTableInternal ==
    (~TreeIsIndex /\ last.op \in {"next", "prev"}) => last.rc # ASSERT_FAILED

(* ----------------------- keys of a table tree --------------------------- *)

\* The key of cell i of the internal node btn is stored in a leaf under the
\* cell's child_page and no larger key is stored there.
LargestBelow(pgs, btn, i) ==
    /\ btn.cells[i].key \in SubtreeKeys(pgs, btn.cells[i].child_page)
    /\ \A k \in SubtreeKeys(pgs, btn.cells[i].child_page) : k <= btn.cells[i].key

\* seek_partial for `key` by a cursor that chidb_dbm_cursor_init has just set
\* on the root.
SeekFromRoot(pgs, key) == seek_partial(chidb_dbm_cursor_init(pgs, root, 0), key, pgs)

\* The seek ended past the last cell of its leaf.
PastLastCell(s) == s.i = chidb_dbm_cursor_getCurrentNode(s.cur).n_cells

\* C28: in a table tree, after any sequence of inserts, the key of every
\* TABLE_INTERNAL cell is the key of a leaf entry and the largest key stored
\* under the cell's child_page; and a seek that ends past the last cell of
\* a leaf has followed right_page at every level (it is in the rightmost
\* leaf).
C28_TableCellKeys ==
    ~TreeIsIndex =>
        /\ \A btn \in TreeNodes(pages) :
               btn.type = PGTYPE_TABLE_INTERNAL =>
                   \A i \in 1..btn.n_cells : LargestBelow(pages, btn, i)
        /\ (\A btn \in TreeNodes(pages) :
                \A c \in Children(btn) : ValidPage(pages, c)) =>
               \A k \in 0..(MaxKey + 1) :
                   PastLastCell(SeekFromRoot(pages, k)) =>
                       AllRight(SeekFromRoot(pages, k).cur)

(* --------------------------- split and retry ---------------------------- *)

\* The cell of the insert the last split belongs to.
SplitCell == EntryCell(TreeIsIndex, last.key, 1, last.size)

\* The child chidb_Btree_insertNonFull picks for the cell when it is called
\* again on the page it resumes at.
RoutedPage ==
    ChildAt(pages[ResumePage], ScanLE(pages[ResumePage], SplitCell.key, 0))

\* The node the key is routed to has room for the cell.
RoutedHasRoom ==
    /\ ValidPage(pages, RoutedPage)
    /\ ~chidb_Btree_nodeIsFull(pages[RoutedPage], SplitCell)

\* Both nodes a split of `child` made hold fewer cells than `child` did.
StrictlySmaller(child, left, right) ==
    left.n_cells < child.n_cells /\ right.n_cells < child.n_cells

\* C29: every insert returns after finitely many splits: after the split
\* of a full child the node the key is routed to next has room for the cell,
\* or the split has made strictly smaller nodes, so that the retry on the
\* same parent cannot repeat for ever, also when the full leaf holds one or
\* two cells and the new key is smaller than the leaf's largest key.
C29_InsertTerminates ==
    [][ last'.op = "split" =>
          /\ last'.rc = CHIDB_OK
          /\ chidb_Btree_insertNonFull(pages', ResumePage', SplitCell', MaxFuel).rc
                # NO_RETURN
          /\ \/ RoutedHasRoom'
             \/ StrictlySmaller(pages[last'.data[2]],
                                pages'[last'.data[4]],
                                pages'[IF last'.data[1] = 0 THEN Len(pages) + 2
                                                            ELSE last'.data[2]]) ]_vars

(* ------------------------- the cursor's position ------------------------ *)

\* C30: whenever rewind (on a tree that is not empty), next, prev, seek,
\* seekge or seekgt returns CHIDB_OK, the cursor's active position is an
\* existing cell, cells[depth] < n_cells of nodes[depth]; the cursor never
\* rests on a leaf without cells.
C30_RestsOnCell ==
    (/\ last.op \in {"rewind", "next", "prev", "seek", "seekge", "seekgt"}
     /\ last.rc = CHIDB_OK
     /\ last.op = "rewind" => StoredKeys # {})
        => OnCell(cursor)

(* ------------------------- the cursor's capacity ------------------------ *)

\* C31: in every cursor state 0 <= depth < DEFAULT_CURSOR_MAX_DEPTH, so that
\* no descent writes nodes[] or cells[] behind the allocated elements,
\* however tall the tree is; and chidb_dbm_cursor_goToParent is never called
\* at depth 0, where it would leave depth below 0.
C31_DepthWithinCapacity ==
    /\ cursor.depth >= 0
    /\ cursor.depth < DEFAULT_CURSOR_MAX_DEPTH

(* --------------------------- one entry per key -------------------------- *)

\* The number of entries with key `key` under page npage: cells of leaves
\* and, in an index tree, cells of internal nodes.
RECURSIVE EntriesWithKey(_, _, _)
RECURSIVE EntriesBelow(_, _, _, _)
EntriesWithKey(pgs, npage, key) ==
    IF ~ValidPage(pgs, npage) THEN 0
    ELSE IF IsLeaf(pgs[npage].type)
    THEN Cardinality({ i \in 1..pgs[npage].n_cells : pgs[npage].cells[i].key = key })
    ELSE EntriesBelow(pgs, pgs[npage], pgs[npage].n_cells, key)
         + (IF pgs[npage].type = PGTYPE_INDEX_INTERNAL
            THEN Cardinality({ i \in 1..pgs[npage].n_cells :
                                  pgs[npage].cells[i].key = key })
            ELSE 0)

\* The same under the first i cells of the internal node btn and under its
\* right_page.
EntriesBelow(pgs, btn, i, key) ==
    IF i = 0 THEN EntriesWithKey(pgs, btn.right_page, key)
    ELSE EntriesWithKey(pgs, btn.cells[i].child_page, key)
         + EntriesBelow(pgs, btn, i - 1, key)

\* C32: after any sequence of inserts a tree holds each key at most once
\* among its entries, the leaf cells of a table tree, the leaf and the
\* internal cells of an index tree: the insert of a key that an INDEX_INTERNAL
\* cell holds adds no second entry with that key.
C32_OneEntryPerKey ==
    \A k \in Keys : EntriesWithKey(pages, root, k) <= 1

(* ------------------------------ one height ------------------------------ *)

\* The depths below page npage at which the leaves are; a child pointer that
\* leads to no page of the file has no leaf below it, and NoDepth stands
\* for a descent that does not end.
NoDepth == 0 - 1

RECURSIVE LeafDepths(_, _, _)
LeafDepths(pgs, npage, fuel) ==
    IF ~ValidPage(pgs, npage) THEN {}
    ELSE IF IsLeaf(pgs[npage].type) THEN { 0 }
    ELSE IF fuel = 0 THEN { NoDepth }
    ELSE { IF d = NoDepth THEN NoDepth ELSE d + 1 :
              d \in UNION { LeafDepths(pgs, c, fuel - 1) :
                               c \in Children(pgs[npage]) } }

\* Every leaf of the tree in file pgs is d levels below the root.
LeavesAt(pgs, d) == LeafDepths(pgs, root, Len(pgs)) = { d }

\* All leaves at one depth, all nodes of the family of the root.
Balanced(pgs) ==
    /\ \E d \in 0..Len(pgs) : LeavesAt(pgs, d)
    /\ \A p \in TreePages(pgs, root) :
          IsIndex(pgs[p].type) = IsIndex(pgs[root].type)

\* C33: after any sequence of inserts every leaf of the tree is at the same
\* depth below the root, every node above that depth is an internal node,
\* and all nodes of the tree are of one family, TABLE_* or INDEX_*; the
\* height grows only by a root split, which takes all leaves one level down.
C33_OneHeight ==
    /\ Balanced(pages)
    /\ [][ /\ Balanced(pages')
           /\ \A d \in 0..Len(pages) :
                 LeavesAt(pages, d) =>
                    IF RootSplitStep THEN LeavesAt(pages', d + 1)
                    ELSE LeavesAt(pages', d) ]_vars

\* A root split has made a tree of three levels.
C33_Witness ==
    /\ last.op = "split" /\ last.data[1] = 0
    /\ LeavesAt(pages, 2)

(* ------------------------- trees sharing a file ------------------------- *)

\* The pages of the file that belong to a tree other than the one at nroot.
PagesOfOthers(pgs, nroot) ==
    UNION { TreePages(pgs, r) : r \in TreeRoots \ { nroot } }

\* C34: when several trees share one file, an insert into the tree rooted
\* at r, with the splits it makes, changes only pages that were reachable
\* from r before the call or that it allocates; every page of every other
\* tree and the 100-byte file header stay as they were, and no page comes
\* to be reachable from two roots.
C34_InsertKeepsOtherTrees ==
    [][ last'.op = "insert" =>
          /\ Len(pages') >= Len(pages)
          /\ \A p \in 1..Len(pages) :
                p \notin TreePages(pages, root') => pages'[p] = pages[p]
          /\ \A p \in PagesOfOthers(pages, root') : pages'[p] = pages[p]
          /\ header' = header
          /\ TreePages(pages', root') \cap PagesOfOthers(pages', root') = {}
          /\ PagesOfOthers(pages', root') = PagesOfOthers(pages, root') ]_vars

\* An insert into one tree has split a node while the pages of the other
\* tree lie between the pages of this one.
C34_Witness ==
    /\ last.op = "insert" /\ last.rc = CHIDB_OK
    /\ \E p \in PagesOfOthers(pages, root) :
          /\ \E q \in TreePages(pages, root) : root < q /\ q < p
          /\ Len(pages) \in TreePages(pages, root)
          /\ p > 3

(* ------------------------------- scan loop ------------------------------ *)

\* The number of entries of the tree whose key is at most `key`.
RECURSIVE EntriesUpTo(_)
EntriesUpTo(key) ==
    IF key = 0 THEN 0
    ELSE EntriesWithKey(pages, root, key) + EntriesUpTo(key - 1)

\* The keys of s are those of the first Len(s) entries of the tree in
\* ascending order of the keys.
FirstEntries(s) ==
    /\ \A i \in 1..Len(s) :
          /\ s[i] \in 1..(MaxKey + 1)
          /\ EntriesUpTo(s[i] - 1) < i
          /\ i <= EntriesUpTo(s[i])

C36_ReopenAccepted ==
    [][ (last.op = "open" /\ last.size = 0 /\ last'.op = "reopen") =>
            /\ last'.rc = CHIDB_OK
            /\ ValidateHeader(header) = CHIDB_OK
            /\ last'.key = DEFAULT_PAGE_SIZE
            /\ last'.key = header[17] * 256 + header[18]
            /\ header' = header
            /\ pages' = pages ]_vars

\* A file created by the first open has been opened a second time.
C36_Witness ==
    /\ last.op = "reopen" /\ last.size = 100
    /\ ncalls = 1
    /\ header = WriteFileHeader(Fill(100, 255), DEFAULT_PAGE_SIZE)
    /\ Len(pages) = 1


(* ----------------------------- page sizes ------------------------------ *)

\* C37: for every page size from 512 to 65536, the page size read from
\* header bytes 16..17 is the page size written there, and the cells_offset
\* reloaded from the 2-byte field of a new, empty node is the page size:
\* neither value is reduced modulo 2^16.
C37_PageSizeKept ==
    last.op \in {"create", "open", "newNode"} =>
        /\ StoredPageSize(header) = last.key
        /\ last.size = last.key
        /\ \A p \in 1..Len(pages) :
              GetNodeByPage(pages, p).n_cells = 0 =>
                  GetNodeByPage(pages, p).cells_offset = last.key


(* -------------------- inserts under an open cursor --------------------- *)

\* The keys of the entries the tree was seeded with: those it held when the
\* cursor was rewound, every later entry being inserted with another salt.
KeysAtRewind ==
    { e.key : e \in { g \in given : g = EntryGiven(TreeIsIndex, g.key, 0, g.size) } }

\* The keys the scan has returned so far.
Returned == { trail.keys[i] : i \in 1..Len(trail.keys) }

\* C38: when entries are inserted between the next calls of a rewound
\* cursor, the keys the cursor returns are strictly ascending and no key the
\* tree held at the rewind is passed over: each such key below the last key
\* returned has been returned, and all of them when next reports the end.
C38_ScanUnderInserts ==
    (trail.mode = "scan" /\ Running /\ KeysAtRewind # {}) =>
        /\ \A i \in 1..(Len(trail.keys) - 1) : trail.keys[i] < trail.keys[i + 1]
        /\ \A k \in KeysAtRewind :
              k < trail.keys[Len(trail.keys)] => k \in Returned
        /\ (last.op = "next" /\ last.rc = CHIDB_CURSOR_ENONEXT) =>
               KeysAtRewind \subseteq Returned


(* ------------------------ register comparison -------------------------- *)

\* C39: for every pair of int32 registers r1 (register p1) and r2 (register
\* p3), chidb_dbm_cmp returns a value below 0 when r1 < r2, 0 when r1 = r2
\* and above 0 when r1 > r2, also when r1 - r2 does not fit in 32 bits; Lt,
\* Le, Gt and Ge jump exactly when r1 <, <=, >, >= r2.
C39_CmpTrueOrder ==
    last.op \in {"Lt", "Le", "Gt", "Ge"} =>
        LET r1 == last.data[1]
            r2 == last.data[2]
        IN  /\ (r1 < r2) = (last.size < 0)
            /\ (r1 = r2) = (last.size = 0)
            /\ (r1 > r2) = (last.size > 0)
            /\ (last.key = 1) = CASE last.op = "Lt" -> r1 < r2
                                  [] last.op = "Le" -> r1 <= r2
                                  [] last.op = "Gt" -> r1 > r2
                                  [] last.op = "Ge" -> r1 >= r2

====
